---- MODULE Spec2Model ----
(***************************************************************************)
(* A model of ACADO's Power_Int operator node (integer-exponent power of   *)
(* the symbolic operator family) and of the Asin node's derivative cache.  *)
(*                                                                         *)
(* Power_Int objects live in a heap; an object's argument is a handle to   *)
(* a leaf (variable / constant) or to another heap object.  A double is a  *)
(* pair <<n, d>>: the rational n/d for d > 0, +Inf = <<1,0>>,              *)
(* -Inf = <<-1,0>>, NaN = <<0,0>>.  Signed zeros are not distinguished.    *)
(***************************************************************************)
EXTENDS Integers, Sequences, FiniteSets, TLC

VARIABLES heap, call, ub

vars == <<heap, call, ub>>

(***************************************************************************)
(* Bounds of the model.                                                    *)
(***************************************************************************)
\* largest buffer slot ("number") a numeric call is made with
MaxSlot == 1
\* numeric calls that would grow a buffer beyond MaxBuf cells are not made
MaxBuf == 2
\* the exponents of the nodes under test are -MaxNegExp .. MaxExp
MaxNegExp == 2
MaxExp == 3

\* the variables x[0], x[1] of the input vector
Vars == {0, 1}
\* the values a component of x is drawn from
XVals == {-2, 0, 2}
\* the values a component of a forward seed is drawn from
SeedVals == {0, 1}
Slots == 0..MaxSlot
ExpRange == (0 - MaxNegExp)..MaxExp

(***************************************************************************)
(* double arithmetic                                                       *)
(***************************************************************************)
Abs(i) == IF i < 0 THEN -i ELSE i
Sgn(i) == IF i > 0 THEN 1 ELSE IF i < 0 THEN -1 ELSE 0

RECURSIVE GCD(_, _)
GCD(a, b) == IF b = 0 THEN a ELSE GCD(b, a % b)

Norm(n, d) ==
    IF d = 0 THEN <<Sgn(n), 0>>
    ELSE LET g == GCD(Abs(n), d) IN <<n \div g, d \div g>>

NaN == <<0, 0>>
PInf == <<1, 0>>
DInt(i) == <<i, 1>>
DZero == DInt(0)
DOne == DInt(1)
\* an int divided by a power of two, e.g. the constants -0.5 and -1.5
DHalf(i) == Norm(i, 2)

IsNaN(a) == a = NaN
IsFinite(a) == a[2] > 0

\* content of a cell that realloc added and nobody wrote yet
Garbage == <<0, -1>>
\* what reading such a cell (or reading out of bounds) can yield
GarbageVals == {DInt(2), NaN}
Read(cell, g) == IF cell = Garbage THEN g ELSE cell

DMul(a, b) == Norm(a[1] * b[1], a[2] * b[2])

DAdd(a, b) ==
    IF a[2] = 0 /\ b[2] = 0
    THEN (IF a = b THEN a ELSE NaN)
    ELSE Norm(a[1] * b[2] + b[1] * a[2], a[2] * b[2])

DInv(a) ==
    IF a[2] = 0 THEN (IF a[1] = 0 THEN NaN ELSE DZero)
    ELSE IF a[1] = 0 THEN PInf
    ELSE Norm(Sgn(a[1]) * a[2], Abs(a[1]))

RECURSIVE PowNat(_, _)
PowNat(a, k) == IF k = 0 THEN DOne ELSE DMul(a, PowNat(a, k - 1))

\* pow( double, int ) of the C library: pow(a,0) = 1 for every a, NaN included
pow(a, n) ==
    IF n = 0 THEN DOne
    ELSE IF n > 0 THEN PowNat(a, n)
    ELSE DInv(PowNat(a, -n))

\* sqrt on the values 1 - x*x takes in the model: 1, 0, negative, NaN
DSqrt(a) ==
    IF a = DOne \/ a = DZero THEN a
    ELSE IF a = PInf THEN PInf
    ELSE NaN

\* asin( double ): asin(0) = 0, NaN outside [-1,1]
DAsinFcn(a) ==
    IF a = DZero THEN DZero ELSE NaN

\* dAsin(x) = 1/sqrt(1-x*x)
dAsin(a) ==
    DInv(DSqrt(DAdd(DOne, DMul(DInt(-1), DMul(a, a)))))

\* ddAsin(x) = -2*x*(-0.5/v1/v1/v1) with v1 = sqrt(1-x*x)
ddAsin(a) ==
    LET v1 == DSqrt(DAdd(DOne, DMul(DInt(-1), DMul(a, a))))
        q == DMul(DMul(DMul(DHalf(-1), DInv(v1)), DInv(v1)), DInv(v1))
    IN DMul(DMul(DInt(-2), a), q)

(***************************************************************************)
(* handles, expressions and heap objects                                   *)
(***************************************************************************)
Ids == {1, 2}

NullH == [h |-> "null", i |-> 0]
VarH(c) == [h |-> "var", i |-> c]
ConstH(v) == [h |-> "const", i |-> v]
ObjH(id) == [h |-> "obj", i |-> id]

\* a SharedOperator that points to nothing (derivative caches before initDerivative)
NullE == [t |-> "null"]

OK == "SUCCESSFUL_RETURN"
RET_NAN == "RET_NAN"

\* Power_Int( const SharedOperator &_argument, const int &_exponent )
PowerIntCtor(arg, n) ==
    [kind |-> "Power_Int", argument |-> arg, exponent |-> n,
     argument_result |-> <<DZero>>, dargument_result |-> <<DZero>>,
     bufferSize |-> 1, curvature |-> "CT_UNKNOWN", monotonicity |-> "MT_UNKNOWN",
     derivative |-> NullE, derivative2 |-> NullE, dargument |-> NullE]

\* Asin( const SharedOperator &_argument ): a UnaryOperator with the same
\* buffers and caches; it has no exponent
AsinCtor(arg) ==
    [PowerIntCtor(arg, 1) EXCEPT !.kind = "Asin"]

\* Grow with a buffer allocated anew instead of realloc'ed: the old cells are lost
Grow_fresh(o, number) ==
    IF number >= o.bufferSize
    THEN [o EXCEPT !.bufferSize = @ + number,
                   !.argument_result = [k \in 1..(o.bufferSize + number) |-> Garbage],
                   !.dargument_result = [k \in 1..(o.bufferSize + number) |-> Garbage]]
    ELSE o

\* Grow that resizes the buffers to fit the slot exactly, shrinking them too
Grow_fit(o, number) ==
    [o EXCEPT !.bufferSize = number + 1,
              !.argument_result =
                  [k \in 1..(number + 1) |-> IF k <= o.bufferSize THEN @[k] ELSE Garbage],
              !.dargument_result =
                  [k \in 1..(number + 1) |-> IF k <= o.bufferSize THEN @[k] ELSE Garbage]]

\* Grow that reallocs to number cells, one too few for the slot number
Grow_short(o, number) ==
    IF number >= o.bufferSize
    THEN [o EXCEPT !.bufferSize = number,
                   !.argument_result = @ \o [k \in 1..(number - o.bufferSize) |-> Garbage],
                   !.dargument_result = @ \o [k \in 1..(number - o.bufferSize) |-> Garbage]]
    ELSE o

\* the realloc of evaluate / AD_forward: bufferSize += number, old cells kept,
\* the added cells hold whatever the allocator left there
Grow(o, number) ==
    IF number >= o.bufferSize
    THEN [o EXCEPT !.bufferSize = @ + number,
                   !.argument_result = @ \o [k \in 1..number |-> Garbage],
                   !.dargument_result = @ \o [k \in 1..number |-> Garbage]]
    ELSE o

InBuf(o, number) == number >= 0 /\ number < o.bufferSize

\* argument_result[number] and dargument_result[number] as a read sees them
ArgAt(o, number, g) ==
    IF InBuf(o, number) THEN Read(o.argument_result[number + 1], g) ELSE g
DArgAt(o, number, g) ==
    IF InBuf(o, number) THEN Read(o.dargument_result[number + 1], g) ELSE g

SetArg(o, number, v) ==
    IF InBuf(o, number) THEN [o EXCEPT !.argument_result[number + 1] = v] ELSE o
SetDArg(o, number, v) ==
    IF InBuf(o, number) THEN [o EXCEPT !.dargument_result[number + 1] = v] ELSE o

ZeroVec == [c \in Vars |-> DZero]

\* what a numeric call hands back: the heap after it, the return code, the
\* outputs, whether it touched a buffer outside [0, bufferSize), and what
\* passed between the node and its argument: the value, derivative and code
\* the argument returned (a, da, argRet), the seeds it was handed (push, push2)
Res(H) ==
    [heap |-> H, ret |-> OK, f |-> DZero, df |-> DZero, ddf |-> DZero,
     dfv |-> ZeroVec, ddfv |-> ZeroVec, ub |-> FALSE,
     a |-> DZero, da |-> DZero, argRet |-> OK, push |-> DZero, push2 |-> DZero]

\* the code a node returns for a result that is not a number
NanCode(v) == IF IsNaN(v) THEN RET_NAN ELSE OK

RECURSIVE HEvaluate(_, _, _, _, _)
RECURSIVE HAD_forward4(_, _, _, _, _, _)
RECURSIVE HAD_forward(_, _, _, _, _)
RECURSIVE HAD_backward(_, _, _, _, _, _)
RECURSIVE HAD_forward2(_, _, _, _, _, _)
RECURSIVE HAD_backward2(_, _, _, _, _, _, _, _)

(***************************************************************************)
(* Power_Int: numeric evaluation and automatic differentiation             *)
(***************************************************************************)
\* the code evaluate returns, given the code its argument returned
evaluateRet(argRet) == OK

\* evaluateResult that takes 0^0 to be 0
evaluateResult_zero(a, n) == IF a = DZero THEN DZero ELSE pow(a, n)

\* result[0] = pow( argument_result[number], exponent )
evaluateResult(a, n) == pow(a, n)

\* evaluate that computes its result from the cell before the argument's
\* value of this call is stored there
evaluate_stale(H, id, number, x, g) ==
    LET H1 == [H EXCEPT ![id] = Grow(@, number)]
        r == HEvaluate(H1, H1[id].argument, number, x, g)
        H2 == [r.heap EXCEPT ![id] = SetArg(@, number, r.f)]
    IN [Res(H2) EXCEPT !.ret = evaluateRet(r.ret),
                       !.f = evaluateResult(ArgAt(r.heap[id], number, g),
                                            H2[id].exponent),
                       !.ub = r.ub \/ ~InBuf(H2[id], number),
                       !.a = r.f, !.argRet = r.ret]

evaluate(H, id, number, x, g) ==
    LET H1 == [H EXCEPT ![id] = Grow(@, number)]
        r == HEvaluate(H1, H1[id].argument, number, x, g)
        H2 == [r.heap EXCEPT ![id] = SetArg(@, number, r.f)]
        o == H2[id]
    IN [Res(H2) EXCEPT !.ret = evaluateRet(r.ret),
                       !.f = evaluateResult(ArgAt(o, number, g), o.exponent),
                       !.ub = r.ub \/ ~InBuf(o, number),
                       !.a = r.f, !.argRet = r.ret]

\* exponent*pow( argument_result[number],exponent-1 )
dpow(a, n) == DMul(DInt(n), pow(a, n - 1))

\* the codes the forward sweeps return, given the code the argument returned
AD_forward4Ret(argRet) == OK
AD_forwardRet(argRet) == OK
AD_forward2Ret(argRet) == OK
AD_backward2Ret(argRet) == OK
\* AD_backward returns what the argument's AD_backward returns
AD_backwardRet(argRet) == argRet

\* AD_forwardDf with the exponent of the power not decremented
AD_forwardDf_same(a, da, n) == DMul(DMul(DInt(n), pow(a, n)), da)

\* df[0] = exponent*pow( argument_result[number],exponent-1 )*dargument_result[number]
AD_forwardDf(a, da, n) == DMul(dpow(a, n), da)

AD_forward4(H, id, number, x, seed, g) ==
    LET H1 == [H EXCEPT ![id] = Grow(@, number)]
        r == HAD_forward4(H1, H1[id].argument, number, x, seed, g)
        H2 == [r.heap EXCEPT ![id] = SetDArg(SetArg(@, number, r.f), number, r.df)]
        o == H2[id]
    IN [Res(H2) EXCEPT !.ret = AD_forward4Ret(r.ret),
                       !.f = evaluateResult(ArgAt(o, number, g), o.exponent),
                       !.df = AD_forwardDf(ArgAt(o, number, g), DArgAt(o, number, g),
                                           o.exponent),
                       !.ub = r.ub \/ ~InBuf(o, number),
                       !.a = r.f, !.da = r.df, !.argRet = r.ret]

\* AD_forward that uses the argument's derivative without storing it in
\* dargument_result[number]
AD_forward_unstored(H, id, number, seed, g) ==
    LET r == HAD_forward(H, H[id].argument, number, seed, g)
        o == r.heap[id]
    IN [Res(r.heap) EXCEPT !.ret = AD_forwardRet(r.ret),
                           !.df = AD_forwardDf(ArgAt(o, number, g), r.df, o.exponent),
                           !.ub = r.ub \/ ~InBuf(o, number),
                           !.da = r.df, !.argRet = r.ret]

AD_forward(H, id, number, seed, g) ==
    LET r == HAD_forward(H, H[id].argument, number, seed, g)
        H2 == [r.heap EXCEPT ![id] = SetDArg(@, number, r.df)]
        o == H2[id]
    IN [Res(H2) EXCEPT !.ret = AD_forwardRet(r.ret),
                       !.df = AD_forwardDf(ArgAt(o, number, g), DArgAt(o, number, g),
                                           o.exponent),
                       !.ub = r.ub \/ ~InBuf(o, number),
                       !.da = r.df, !.argRet = r.ret]

\* the seed AD_backward hands to the argument:
\* exponent*pow( argument_result[number], exponent-1 )*seed
\* AD_backwardSeed with the function value x^n in place of the derivative
AD_backwardSeed_value(o, number, seed, g) ==
    DMul(pow(ArgAt(o, number, g), o.exponent), seed)

AD_backwardSeed(o, number, seed, g) ==
    DMul(dpow(ArgAt(o, number, g), o.exponent), seed)

AD_backward(H, id, number, seed, dfv, g) ==
    LET o == H[id]
        p == AD_backwardSeed(o, number, seed, g)
        r == HAD_backward(H, o.argument, number, p, dfv, g)
    IN [r EXCEPT !.ret = AD_backwardRet(r.ret),
                 !.ub = r.ub \/ ~InBuf(o, number),
                 !.push = p, !.argRet = r.ret]

AD_forward2(H, id, number, seed, dseed, g) ==
    LET r == HAD_forward2(H, H[id].argument, number, seed, dseed, g)
        o == r.heap[id]
        a == ArgAt(o, number, g)
        nn == dpow(a, o.exponent)
    IN [Res(r.heap) EXCEPT
            !.ret = AD_forward2Ret(r.ret),
            !.df = DMul(nn, r.df),
            !.ddf = DAdd(DMul(nn, r.ddf),
                         DMul(DMul(DMul(DInt(o.exponent * (o.exponent - 1)),
                                        DArgAt(o, number, g)),
                                   r.df),
                              pow(a, o.exponent - 2))),
            !.ub = r.ub \/ ~InBuf(o, number),
            !.da = r.df, !.argRet = r.ret]

\* the two seeds AD_backward2 hands to the argument
AD_backward2Seed1(o, number, seed1, g) ==
    DMul(seed1, dpow(ArgAt(o, number, g), o.exponent))
\* AD_backward2Seed2 without the term of the buffered first direction
AD_backward2Seed2_linear(o, number, seed1, seed2, g) ==
    DMul(seed2, dpow(ArgAt(o, number, g), o.exponent))

AD_backward2Seed2(o, number, seed1, seed2, g) ==
    LET a == ArgAt(o, number, g)
    IN DAdd(DMul(seed2, dpow(a, o.exponent)),
            DMul(DMul(DMul(DMul(seed1, DInt(o.exponent)), DInt(o.exponent - 1)),
                      pow(a, o.exponent - 2)),
                 DArgAt(o, number, g)))

AD_backward2(H, id, number, seed1, seed2, dfv, ddfv, g) ==
    LET o == H[id]
        p1 == AD_backward2Seed1(o, number, seed1, g)
        p2 == AD_backward2Seed2(o, number, seed1, seed2, g)
        r == HAD_backward2(H, o.argument, number, p1, p2, dfv, ddfv, g)
    IN [r EXCEPT !.ret = AD_backward2Ret(r.ret),
                 !.ub = r.ub \/ ~InBuf(o, number),
                 !.push = p1, !.push2 = p2, !.argRet = r.ret]

(***************************************************************************)
(* The operators a Power_Int can have as its argument: the numeric         *)
(* contract of a variable leaf, a constant leaf and the unary Asin node.   *)
(***************************************************************************)
\* the code a unary node returns: the argument's failure, else its own
UnaryRet(argRet, v) == IF argRet # OK THEN argRet ELSE NanCode(v)

U_evaluate(H, id, number, x, g) ==
    LET H1 == [H EXCEPT ![id] = Grow(@, number)]
        r == HEvaluate(H1, H1[id].argument, number, x, g)
        H2 == [r.heap EXCEPT ![id] = SetArg(@, number, r.f)]
        v == DAsinFcn(ArgAt(H2[id], number, g))
    IN [Res(H2) EXCEPT !.ret = UnaryRet(r.ret, v), !.f = v,
                       !.ub = r.ub \/ ~InBuf(H2[id], number)]

U_AD_forward4(H, id, number, x, seed, g) ==
    LET H1 == [H EXCEPT ![id] = Grow(@, number)]
        r == HAD_forward4(H1, H1[id].argument, number, x, seed, g)
        H2 == [r.heap EXCEPT ![id] = SetDArg(SetArg(@, number, r.f), number, r.df)]
        a == ArgAt(H2[id], number, g)
        v == DAsinFcn(a)
    IN [Res(H2) EXCEPT !.ret = UnaryRet(r.ret, v), !.f = v,
                       !.df = DMul(dAsin(a), DArgAt(H2[id], number, g)),
                       !.ub = r.ub \/ ~InBuf(H2[id], number)]

U_AD_forward(H, id, number, seed, g) ==
    LET r == HAD_forward(H, H[id].argument, number, seed, g)
        H2 == [r.heap EXCEPT ![id] = SetDArg(@, number, r.df)]
        v == DMul(dAsin(ArgAt(H2[id], number, g)), DArgAt(H2[id], number, g))
    IN [Res(H2) EXCEPT !.ret = UnaryRet(r.ret, v), !.df = v,
                       !.ub = r.ub \/ ~InBuf(H2[id], number)]

U_AD_backward(H, id, number, seed, dfv, g) ==
    LET o == H[id]
        s == DMul(dAsin(ArgAt(o, number, g)), seed)
        r == HAD_backward(H, o.argument, number, s, dfv, g)
    IN [r EXCEPT !.ret = UnaryRet(r.ret, s), !.ub = r.ub \/ ~InBuf(o, number)]

U_AD_forward2(H, id, number, seed, dseed, g) ==
    LET r == HAD_forward2(H, H[id].argument, number, seed, dseed, g)
        o == r.heap[id]
        a == ArgAt(o, number, g)
        v == DMul(dAsin(a), r.df)
    IN [Res(r.heap) EXCEPT
            !.ret = UnaryRet(r.ret, v), !.df = v,
            !.ddf = DAdd(DMul(dAsin(a), r.ddf),
                         DMul(DMul(ddAsin(a), DArgAt(o, number, g)), r.df)),
            !.ub = r.ub \/ ~InBuf(o, number)]

U_AD_backward2(H, id, number, seed1, seed2, dfv, ddfv, g) ==
    LET o == H[id]
        a == ArgAt(o, number, g)
        s1 == DMul(seed1, dAsin(a))
        s2 == DAdd(DMul(seed2, dAsin(a)),
                   DMul(DMul(seed1, ddAsin(a)), DArgAt(o, number, g)))
        r == HAD_backward2(H, o.argument, number, s1, s2, dfv, ddfv, g)
    IN [r EXCEPT !.ret = UnaryRet(r.ret, s1), !.ub = r.ub \/ ~InBuf(o, number)]

IsPowerInt(H, h) == h.h = "obj" /\ H[h.i].kind = "Power_Int"

\* the value of a leaf: x[c] for the variable c, v for the constant v
LeafValue(h, x) == IF h.h = "var" THEN DInt(x[h.i]) ELSE DInt(h.i)
\* the directional derivative of a leaf: seed[c] for a variable, 0 for a constant
LeafSeed(h, seed) == IF h.h = "var" THEN DInt(seed[h.i]) ELSE DZero
\* a variable leaf adds the backward seed to its entry of df
LeafPush(h, s, dfv) ==
    IF h.h = "var" THEN [dfv EXCEPT ![h.i] = DAdd(@, s)] ELSE dfv

HEvaluate(H, h, number, x, g) ==
    IF h.h = "obj"
    THEN (IF IsPowerInt(H, h) THEN evaluate(H, h.i, number, x, g)
          ELSE U_evaluate(H, h.i, number, x, g))
    ELSE [Res(H) EXCEPT !.f = LeafValue(h, x)]

HAD_forward4(H, h, number, x, seed, g) ==
    IF h.h = "obj"
    THEN (IF IsPowerInt(H, h) THEN AD_forward4(H, h.i, number, x, seed, g)
          ELSE U_AD_forward4(H, h.i, number, x, seed, g))
    ELSE [Res(H) EXCEPT !.f = LeafValue(h, x), !.df = LeafSeed(h, seed)]

HAD_forward(H, h, number, seed, g) ==
    IF h.h = "obj"
    THEN (IF IsPowerInt(H, h) THEN AD_forward(H, h.i, number, seed, g)
          ELSE U_AD_forward(H, h.i, number, seed, g))
    ELSE [Res(H) EXCEPT !.df = LeafSeed(h, seed)]

HAD_backward(H, h, number, s, dfv, g) ==
    IF h.h = "obj"
    THEN (IF IsPowerInt(H, h) THEN AD_backward(H, h.i, number, s, dfv, g)
          ELSE U_AD_backward(H, h.i, number, s, dfv, g))
    ELSE [Res(H) EXCEPT !.dfv = LeafPush(h, s, dfv)]

HAD_forward2(H, h, number, seed, dseed, g) ==
    IF h.h = "obj"
    THEN (IF IsPowerInt(H, h) THEN AD_forward2(H, h.i, number, seed, dseed, g)
          ELSE U_AD_forward2(H, h.i, number, seed, dseed, g))
    ELSE [Res(H) EXCEPT !.df = LeafSeed(h, seed), !.ddf = LeafSeed(h, dseed)]

HAD_backward2(H, h, number, s1, s2, dfv, ddfv, g) ==
    IF h.h = "obj"
    THEN (IF IsPowerInt(H, h)
          THEN AD_backward2(H, h.i, number, s1, s2, dfv, ddfv, g)
          ELSE U_AD_backward2(H, h.i, number, s1, s2, dfv, ddfv, g))
    ELSE [Res(H) EXCEPT !.dfv = LeafPush(h, s1, dfv), !.ddfv = LeafPush(h, s2, ddfv)]

(***************************************************************************)
(* Power_Int: assignment and clearBuffer                                   *)
(***************************************************************************)
\* Power_Int::operator=: argument, exponent, bufferSize, curvature and
\* monotonicity are taken from arg; both buffers are calloc'ed anew;
\* derivative, derivative2 and dargument are not touched
Assign(this, arg) ==
    [this EXCEPT !.argument = arg.argument,
                 !.exponent = arg.exponent,
                 !.bufferSize = arg.bufferSize,
                 !.argument_result = [k \in 1..arg.bufferSize |-> DZero],
                 !.dargument_result = [k \in 1..arg.bufferSize |-> DZero],
                 !.curvature = arg.curvature,
                 !.monotonicity = arg.monotonicity]

\* clearBuffer that allocates the one cell anew instead of realloc'ing
clearBuffer_calloc(o) ==
    IF o.bufferSize > 1
    THEN [o EXCEPT !.bufferSize = 1,
                   !.argument_result = <<DZero>>,
                   !.dargument_result = <<DZero>>]
    ELSE o

\* Power_Int::clearBuffer: realloc to one cell when bufferSize > 1
clearBuffer(o) ==
    IF o.bufferSize > 1
    THEN [o EXCEPT !.bufferSize = 1,
                   !.argument_result = SubSeq(@, 1, 1),
                   !.dargument_result = SubSeq(@, 1, 1)]
    ELSE o

(***************************************************************************)
(* The calls a user of the nodes makes.  call records the latest call: its *)
(* name, the node and slot it was made with, the bufferSize it found (pbs),*)
(* the node assigned from (src),                                           *)
(* whether the call before it was the same call on the same node (again),  *)
(* what it returned, and what the node's argument returned to it (a, da,   *)
(* argRet) or was handed by it (push, push2).                              *)
(***************************************************************************)
NoCall ==
    [op |-> "none", id |-> 0, src |-> 0, slot |-> 0, pbs |-> 0, again |-> FALSE,
     ret |-> OK, argRet |-> OK, f |-> DZero, df |-> DZero, ddf |-> DZero,
     dfv |-> ZeroVec, ddfv |-> ZeroVec, a |-> DZero, da |-> DZero,
     push |-> DZero, push2 |-> DZero, b |-> FALSE, cls |-> "none",
     e |-> NullE, argCalls |-> 0, index |-> 0, q |-> {}, var |-> "none",
     seed |-> DZero, seed2 |-> DZero, seedv |-> [c \in Vars |-> 0],
     dseedv |-> [c \in Vars |-> 0], news |-> 0, sub |-> NullE, out |-> <<>>,
     x |-> [c \in Vars |-> 0], track |-> FALSE, populated |-> {}]

CallOf(op, id, slot) ==
    [NoCall EXCEPT !.op = op, !.id = id, !.slot = slot,
                   !.pbs = heap[id].bufferSize,
                   !.again = (call.op = op /\ call.id = id),
                   !.track = call.track,
                   !.populated = call.populated]

\* the nodes reached from the handle h through argument handles, h included
RECURSIVE Reached(_, _)
Reached(H, h) ==
    IF h.h = "obj" THEN {h.i} \cup Reached(H, H[h.i].argument) ELSE {}

\* in a specification that starts with track set, populated holds the pairs
\* <<node, slot>> of the slots that an evaluate or a four-argument
\* AD_forward wrote since the node's buffers were last cleared or allocated
\* anew
Populate(id, number) ==
    IF call.track
    THEN call.populated \cup {<<j, number>> : j \in Reached(heap, ObjH(id))}
    ELSE call.populated
Depopulate(id) == {p \in call.populated : p[1] # id}

Capped(H) == \A i \in Ids : H[i].bufferSize <= MaxBuf

Live(id) == ~ub /\ heap[id].kind = "Power_Int"

\* the values a call at slot number can read from cells nobody wrote: some
\* value of GarbageVals when a node has such a cell at that slot
ReadsGarbage(number) ==
    \E i \in Ids : \/ ~InBuf(heap[i], number)
                   \/ heap[i].argument_result[number + 1] = Garbage
                   \/ heap[i].dargument_result[number + 1] = Garbage
GarbageAt(number) == IF ReadsGarbage(number) THEN GarbageVals ELSE {NaN}

\* the record of a numeric call that handed back r
Numeric(op, id, number, r) ==
    [CallOf(op, id, number) EXCEPT
        !.ret = r.ret, !.f = r.f, !.df = r.df, !.ddf = r.ddf,
        !.dfv = r.dfv, !.ddfv = r.ddfv, !.a = r.a, !.da = r.da,
        !.argRet = r.argRet, !.push = r.push, !.push2 = r.push2]

Return(op, id, number, r) ==
    /\ Capped(r.heap)
    /\ heap' = r.heap
    /\ ub' = r.ub
    /\ call' = Numeric(op, id, number, r)

\* Return, with the point x of the call kept in its record
ReturnAt(op, id, number, r, x) ==
    /\ Capped(r.heap)
    /\ heap' = r.heap
    /\ ub' = r.ub
    /\ call' = [Numeric(op, id, number, r) EXCEPT
                   !.x = x, !.populated = Populate(id, number)]

DoEvaluate(id, number, x) ==
    /\ Live(id)
    /\ ReturnAt("evaluate", id, number, evaluate(heap, id, number, x, NaN), x)

DoAD_forward4(id, number, x, seed) ==
    /\ Live(id)
    /\ ReturnAt("AD_forward4", id, number,
                AD_forward4(heap, id, number, x, seed, NaN), x)

DoAD_forward(id, number, seed, g) ==
    /\ Live(id)
    /\ Return("AD_forward", id, number, AD_forward(heap, id, number, seed, g))

\* Return, with the seeds of the call kept in its record
ReturnSeeded(op, id, number, r, seed, seed2, seedv, dseedv) ==
    /\ Capped(r.heap)
    /\ heap' = r.heap
    /\ ub' = r.ub
    /\ call' = [Numeric(op, id, number, r) EXCEPT
                   !.seed = seed, !.seed2 = seed2,
                   !.seedv = seedv, !.dseedv = dseedv]

DoAD_backward(id, number, s, g) ==
    /\ Live(id)
    /\ ReturnSeeded("AD_backward", id, number,
                    AD_backward(heap, id, number, DInt(s), ZeroVec, g),
                    DInt(s), DZero, NoCall.seedv, NoCall.dseedv)

DoAD_forward2(id, number, seed, dseed, g) ==
    /\ Live(id)
    /\ ReturnSeeded("AD_forward2", id, number,
                    AD_forward2(heap, id, number, seed, dseed, g),
                    DZero, DZero, seed, dseed)

DoAD_backward2(id, number, s1, s2, g) ==
    /\ Live(id)
    /\ ReturnSeeded("AD_backward2", id, number,
                    AD_backward2(heap, id, number, DInt(s1), DInt(s2),
                                 ZeroVec, ZeroVec, g),
                    DInt(s1), DInt(s2), NoCall.seedv, NoCall.dseedv)

\* a = b; a self-assignment changes nothing, and an assignment that would
\* make a node its own argument is not made
DoAssign(a, b) ==
    /\ Live(a) /\ Live(b)
    /\ heap[b].argument # ObjH(a)
    /\ heap' = [heap EXCEPT ![a] = IF a = b THEN @ ELSE Assign(@, heap[b])]
    /\ call' = [CallOf("assign", a, 0) EXCEPT
                   !.src = b,
                   !.populated = IF a = b THEN @ ELSE Depopulate(a)]
    /\ ub' = ub

DoClearBuffer(id) ==
    /\ Live(id)
    /\ heap' = [heap EXCEPT ![id] = clearBuffer(@)]
    /\ call' = [CallOf("clearBuffer", id, 0) EXCEPT !.populated = Depopulate(id)]
    /\ ub' = ub

(***************************************************************************)
(* Spec: two Power_Int nodes over variable leaves.  Node 1 takes every     *)
(* numeric call; both nodes are assigned to one another and cleared.       *)
(***************************************************************************)
XOne == [c \in Vars |-> 2]
SeedOne == [c \in Vars |-> 1]

Init ==
    /\ heap = [i \in Ids |-> IF i = 1 THEN PowerIntCtor(VarH(0), 3)
                             ELSE PowerIntCtor(VarH(1), 2)]
    /\ call = NoCall
    /\ ub = FALSE

Next ==
    \/ \E k \in Slots : DoEvaluate(1, k, XOne)
    \/ \E k \in Slots : DoAD_forward4(1, k, XOne, SeedOne)
    \/ \E k \in Slots : \E g \in GarbageAt(k) : DoAD_forward(1, k, SeedOne, g)
    \/ \E k \in Slots : \E g \in GarbageAt(k) : DoAD_backward(1, k, 1, g)
    \/ \E k \in Slots : \E g \in GarbageAt(k) : DoAD_forward2(1, k, SeedOne, SeedOne, g)
    \/ \E k \in Slots : \E g \in GarbageAt(k) : DoAD_backward2(1, k, 1, 0, g)
    \/ \E a, b \in Ids : DoAssign(a, b)
    \/ \E id \in Ids : DoClearBuffer(id)

Spec == Init /\ [][Next]_vars

(***************************************************************************)
(* SpecNum: node 1 is Power_Int( x[0], n ) for every exponent n of         *)
(* ExpRange; every numeric call is made on it, at the slots 0 and 1, with  *)
(* every value of x[0] and every seed.                                     *)
(***************************************************************************)
SlotsNum == {0, 1}
Xs == {[c \in Vars |-> IF c = 0 THEN v ELSE 0] : v \in XVals}
Seeds == {[c \in Vars |-> IF c = 0 THEN v ELSE 0] : v \in SeedVals}
BackSeeds == {1, 2}

InitNum ==
    /\ \E n \in ExpRange :
          heap = [i \in Ids |-> IF i = 1 THEN PowerIntCtor(VarH(0), n)
                                ELSE PowerIntCtor(VarH(1), 2)]
    /\ call = NoCall
    /\ ub = FALSE

NextNum ==
    \/ \E k \in SlotsNum, x \in Xs : DoEvaluate(1, k, x)
    \/ \E k \in SlotsNum, x \in Xs, seed \in Seeds : DoAD_forward4(1, k, x, seed)
    \/ \E k \in SlotsNum, seed \in Seeds : \E g \in GarbageAt(k) :
          DoAD_forward(1, k, seed, g)
    \/ \E k \in SlotsNum, s \in BackSeeds : \E g \in GarbageAt(k) :
          DoAD_backward(1, k, s, g)
    \/ \E k \in SlotsNum, seed \in Seeds, dseed \in Seeds : \E g \in GarbageAt(k) :
          DoAD_forward2(1, k, seed, dseed, g)
    \/ \E k \in SlotsNum, s1 \in BackSeeds, s2 \in {0, 1} : \E g \in GarbageAt(k) :
          DoAD_backward2(1, k, s1, s2, g)
    \/ DoClearBuffer(1)

SpecNum == InitNum /\ [][NextNum]_vars

(***************************************************************************)
(* SpecNaN: node 1 is Power_Int( asin( x[0] ), 2 ), node 2 the Asin node;  *)
(* x[0] = 2 and x[0] = -2 lie outside the domain of asin.                  *)
(***************************************************************************)
InitNaN ==
    /\ heap = [i \in Ids |-> IF i = 1 THEN PowerIntCtor(ObjH(2), 2)
                             ELSE AsinCtor(VarH(0))]
    /\ call = NoCall
    /\ ub = FALSE

SpecNaN == InitNaN /\ [][NextNum]_vars

(***************************************************************************)
(* Symbolic expressions: the nodes that differentiation and                *)
(* initDerivative allocate.  Shared( h ) is a SharedOperator to an         *)
(* operator that exists already.                                           *)
(***************************************************************************)
NE_ZERO == "NE_ZERO"
NE_ONE == "NE_ONE"
NE_NEITHER_ONE_NOR_ZERO == "NE_NEITHER_ONE_NOR_ZERO"

DoubleConstant(v, ne) == [t |-> "const", v |-> v, ne |-> ne]
Shared(h) == [t |-> "shared", h |-> h]
Product(l, r) == [t |-> "prod", l |-> l, r |-> r]
Addition(l, r) == [t |-> "add", l |-> l, r |-> r]
Power(b, e) == [t |-> "pow", l |-> b, r |-> e]
Power_Int(a, n) == [t |-> "powint", l |-> a, n |-> n]
TreeProjection(e) == [t |-> "tp", l |-> e]
Asin(a) == [t |-> "asin", l |-> a]

\* a constant leaf reports its literal classification
LeafNeutral(v) ==
    IF v = 0 THEN NE_ZERO ELSE IF v = 1 THEN NE_ONE ELSE NE_NEITHER_ONE_NOR_ZERO

\* Power_Int::isOneOrZero returns NE_NEITHER_ONE_NOR_ZERO; so does every
\* other operator that is no constant; a tree projection reports what it
\* projects
RECURSIVE isOneOrZero(_)
isOneOrZero(e) ==
    IF e.t = "const" THEN e.ne
    ELSE IF e.t = "tp" THEN isOneOrZero(e.l)
    ELSE IF e.t = "shared" /\ e.h.h = "const" THEN LeafNeutral(e.h.i)
    ELSE NE_NEITHER_ONE_NOR_ZERO

\* the factory helpers: neutral-element simplification, then allocation
myProd(a, b) ==
    IF a = NullE \/ b = NullE THEN NullE
    ELSE IF isOneOrZero(a) = NE_ZERO \/ isOneOrZero(b) = NE_ZERO
         THEN DoubleConstant(DZero, NE_ZERO)
    ELSE IF isOneOrZero(a) = NE_ONE THEN b
    ELSE IF isOneOrZero(b) = NE_ONE THEN a
    ELSE Product(a, b)

myPowerInt(a, n) ==
    IF isOneOrZero(a) = NE_ZERO THEN DoubleConstant(DZero, NE_ZERO)
    ELSE IF isOneOrZero(a) = NE_ONE THEN DoubleConstant(DOne, NE_ONE)
    ELSE Power_Int(a, n)

convert2TreeProjection(e) == TreeProjection(e)

\* pow( double, double ) for the exponents -0.5 and -1.5 of Asin's derivatives
DPow(b, e) ==
    IF e = DHalf(-1) THEN DInv(DSqrt(b))
    ELSE IF e = DHalf(-3) THEN DInv(DMul(b, DSqrt(b)))
    ELSE NaN

\* the value an expression evaluates to at x
RECURSIVE Denote(_, _, _)
Denote(H, e, x) ==
    IF e.t = "const" THEN e.v
    ELSE IF e.t = "shared" THEN HEvaluate(H, e.h, 0, x, NaN).f
    ELSE IF e.t = "prod" THEN DMul(Denote(H, e.l, x), Denote(H, e.r, x))
    ELSE IF e.t = "add" THEN DAdd(Denote(H, e.l, x), Denote(H, e.r, x))
    ELSE IF e.t = "pow" THEN DPow(Denote(H, e.l, x), Denote(H, e.r, x))
    ELSE IF e.t = "powint" THEN evaluateResult(Denote(H, e.l, x), e.n)
    ELSE IF e.t = "tp" THEN Denote(H, e.l, x)
    ELSE IF e.t = "asin" THEN DAsinFcn(Denote(H, e.l, x))
    ELSE NaN

\* what a symbolic call hands back: the heap, the return code, the
\* expression, whether a null SharedOperator was dereferenced, the number
\* of calls this node made on its argument, and the number of nodes the
\* call allocated with new
SymRes(H) ==
    [heap |-> H, ret |-> OK, e |-> NullE, ub |-> FALSE, argCalls |-> 0, news |-> 0]

RECURSIVE HInitDerivative(_, _)
RECURSIVE HDifferentiate(_, _, _)
RECURSIVE HAD_forwardSym(_, _, _)

(***************************************************************************)
(* Power_Int: initDerivative, differentiate, symbolic AD_forward           *)
(***************************************************************************)
\* initDerivative without the test of derivative: the caches are rebuilt
\* and the argument is initialized on every call
initDerivative_always(H, id) ==
    LET o == H[id]
        powerTmp == myPowerInt(Shared(o.argument), o.exponent - 1)
        expTmp == DoubleConstant(DInt(o.exponent), NE_NEITHER_ONE_NOR_ZERO)
        d1 == convert2TreeProjection(myProd(expTmp, powerTmp))
        powerTmp2 == myPowerInt(Shared(o.argument), o.exponent - 2)
        expTmp2 == DoubleConstant(DInt(o.exponent - 1), NE_NEITHER_ONE_NOR_ZERO)
        prodTmp == myProd(expTmp, expTmp2)
        d2 == convert2TreeProjection(myProd(prodTmp, powerTmp2))
        H1 == [H EXCEPT ![id].derivative = d1, ![id].derivative2 = d2]
        r == HInitDerivative(H1, o.argument)
    IN [r EXCEPT !.argCalls = 1, !.news = @ + 2]

\* initDerivative that builds the caches of the node and leaves the
\* argument alone
initDerivative_shallow(H, id) ==
    IF H[id].derivative # NullE THEN SymRes(H)
    ELSE
      LET o == H[id]
          powerTmp == myPowerInt(Shared(o.argument), o.exponent - 1)
          expTmp == DoubleConstant(DInt(o.exponent), NE_NEITHER_ONE_NOR_ZERO)
          d1 == convert2TreeProjection(myProd(expTmp, powerTmp))
          powerTmp2 == myPowerInt(Shared(o.argument), o.exponent - 2)
          expTmp2 == DoubleConstant(DInt(o.exponent - 1), NE_NEITHER_ONE_NOR_ZERO)
          prodTmp == myProd(expTmp, expTmp2)
          d2 == convert2TreeProjection(myProd(prodTmp, powerTmp2))
          H1 == [H EXCEPT ![id].derivative = d1, ![id].derivative2 = d2]
      IN [SymRes(H1) EXCEPT !.news = 2]

initDerivative(H, id) ==
    IF H[id].derivative # NullE THEN SymRes(H)
    ELSE
      LET o == H[id]
          powerTmp == myPowerInt(Shared(o.argument), o.exponent - 1)
          expTmp == DoubleConstant(DInt(o.exponent), NE_NEITHER_ONE_NOR_ZERO)
          d1 == convert2TreeProjection(myProd(expTmp, powerTmp))
          powerTmp2 == myPowerInt(Shared(o.argument), o.exponent - 2)
          expTmp2 == DoubleConstant(DInt(o.exponent - 1), NE_NEITHER_ONE_NOR_ZERO)
          prodTmp == myProd(expTmp, expTmp2)
          d2 == convert2TreeProjection(myProd(prodTmp, powerTmp2))
          H1 == [H EXCEPT ![id].derivative = d1, ![id].derivative2 = d2]
          r == HInitDerivative(H1, o.argument)
      IN [r EXCEPT !.argCalls = 1, !.news = @ + 2]

\* differentiate without the test of the exponent: the chain rule always
differentiate_chain(H, id, index) ==
    LET r == HDifferentiate(H, H[id].argument, index)
        H1 == [r.heap EXCEPT ![id].dargument = r.e]
    IN [r EXCEPT !.heap = H1,
                 !.e = myProd(H1[id].derivative, r.e),
                 !.ub = r.ub \/ H1[id].derivative = NullE,
                 !.argCalls = 1]

\* differentiate that hands back the cached derivative without the
\* argument's derivative as a factor
differentiate_bare(H, id, index) ==
    IF H[id].exponent = 0
    THEN [SymRes(H) EXCEPT !.e = DoubleConstant(DZero, NE_ZERO), !.news = 1]
    ELSE
      LET r == HDifferentiate(H, H[id].argument, index)
          H1 == [r.heap EXCEPT ![id].dargument = r.e]
      IN [r EXCEPT !.heap = H1,
                   !.e = H1[id].derivative,
                   !.ub = r.ub \/ H1[id].derivative = NullE,
                   !.argCalls = 1]

differentiate(H, id, index) ==
    IF H[id].exponent = 0
    THEN [SymRes(H) EXCEPT !.e = DoubleConstant(DZero, NE_ZERO), !.news = 1]
    ELSE
      LET r == HDifferentiate(H, H[id].argument, index)
          H1 == [r.heap EXCEPT ![id].dargument = r.e]
      IN [r EXCEPT !.heap = H1,
                   !.e = myProd(H1[id].derivative, r.e),
                   !.ub = r.ub \/ H1[id].derivative = NullE,
                   !.argCalls = 1]

AD_forwardSym(H, id, seed) ==
    LET r == HAD_forwardSym(H, H[id].argument, seed)
        H1 == [r.heap EXCEPT ![id].dargument = r.e]
    IN [r EXCEPT !.heap = H1,
                 !.e = myProd(H1[id].derivative, r.e),
                 !.ub = r.ub \/ H1[id].derivative = NullE,
                 !.argCalls = 1]

(***************************************************************************)
(* Asin and the leaves, symbolically                                       *)
(***************************************************************************)
\* 1 - argument^2, as Asin::initDerivative builds it
AsinRadicand(arg) ==
    Addition(DoubleConstant(DOne, NE_ONE),
             Product(DoubleConstant(DInt(-1), NE_NEITHER_ONE_NOR_ZERO),
                     Power_Int(Shared(arg), 2)))

Asin_initDerivative(H, id) ==
    IF H[id].derivative # NullE /\ H[id].derivative2 # NullE THEN SymRes(H)
    ELSE
      LET arg == H[id].argument
          d1 == convert2TreeProjection(
                    Power(AsinRadicand(arg),
                          DoubleConstant(DHalf(-1), NE_NEITHER_ONE_NOR_ZERO)))
          d2 == convert2TreeProjection(
                    Product(Power(AsinRadicand(arg),
                                  DoubleConstant(DHalf(-3), NE_NEITHER_ONE_NOR_ZERO)),
                            Shared(arg)))
          H1 == [H EXCEPT ![id].derivative = d1, ![id].derivative2 = d2]
          r == HInitDerivative(H1, arg)
      IN [r EXCEPT !.argCalls = 1, !.news = @ + 15]

\* UnaryOperator's chain rule
U_differentiate(H, id, index) ==
    LET r == HDifferentiate(H, H[id].argument, index)
        H1 == [r.heap EXCEPT ![id].dargument = r.e]
    IN [r EXCEPT !.heap = H1,
                 !.e = myProd(H1[id].derivative, r.e),
                 !.ub = r.ub \/ H1[id].derivative = NullE,
                 !.argCalls = 1]

U_AD_forwardSym(H, id, seed) ==
    LET r == HAD_forwardSym(H, H[id].argument, seed)
        H1 == [r.heap EXCEPT ![id].dargument = r.e]
    IN [r EXCEPT !.heap = H1,
                 !.e = myProd(H1[id].derivative, r.e),
                 !.ub = r.ub \/ H1[id].derivative = NullE,
                 !.argCalls = 1]

\* d leaf / d x[index]: one for the variable index itself, else zero
LeafDifferentiate(h, index) ==
    IF h.h = "var" /\ h.i = index THEN DoubleConstant(DOne, NE_ONE)
    ELSE DoubleConstant(DZero, NE_ZERO)

\* a variable hands back the seed of its own direction, a constant zero
LeafAD_forwardSym(h, seed) ==
    IF h.h = "var" THEN seed[h.i] ELSE DoubleConstant(DZero, NE_ZERO)

HInitDerivative(H, h) ==
    IF h.h = "obj"
    THEN (IF IsPowerInt(H, h) THEN initDerivative(H, h.i)
          ELSE Asin_initDerivative(H, h.i))
    ELSE SymRes(H)

HDifferentiate(H, h, index) ==
    IF h.h = "obj"
    THEN (IF IsPowerInt(H, h) THEN differentiate(H, h.i, index)
          ELSE U_differentiate(H, h.i, index))
    ELSE [SymRes(H) EXCEPT !.e = LeafDifferentiate(h, index)]

HAD_forwardSym(H, h, seed) ==
    IF h.h = "obj"
    THEN (IF IsPowerInt(H, h) THEN AD_forwardSym(H, h.i, seed)
          ELSE U_AD_forwardSym(H, h.i, seed))
    ELSE [SymRes(H) EXCEPT !.e = LeafAD_forwardSym(h, seed)]

(***************************************************************************)
(* Classification.  A query ( dim, varType, component ) is the set of the  *)
(* components it names; every variable is a differential state.            *)
(***************************************************************************)
VariableTypes == {"VT_DIFFERENTIAL_STATE", "VT_CONTROL"}
VarTypeOf(c) == "VT_DIFFERENTIAL_STATE"
Queries == SUBSET Vars

MonotonicityTypes ==
    {"MT_CONSTANT", "MT_NONDECREASING", "MT_NONINCREASING", "MT_NONMONOTONIC",
     "MT_UNKNOWN"}
CurvatureTypes ==
    {"CT_CONSTANT", "CT_AFFINE", "CT_CONVEX", "CT_CONCAVE",
     "CT_NEITHER_CONVEX_NOR_CONCAVE", "CT_UNKNOWN"}

RECURSIVE HIsDependingOnVT(_, _, _)
RECURSIVE HIsDependingOn(_, _, _)
RECURSIVE HIsLinearIn(_, _, _)
RECURSIVE HIsPolynomialIn(_, _, _)
RECURSIVE HIsRationalIn(_, _, _)
RECURSIVE HGetMonotonicity(_, _)
RECURSIVE HGetCurvature(_, _)

isDependingOnVT(H, id, var) == HIsDependingOnVT(H, H[id].argument, var)

isDependingOn(H, id, q) ==
    IF H[id].exponent = 0 THEN FALSE
    ELSE HIsDependingOn(H, H[id].argument, q)

isLinearIn(H, id, q) ==
    IF H[id].exponent = 0 THEN TRUE
    ELSE IF H[id].exponent = 1 /\ HIsLinearIn(H, H[id].argument, q) THEN TRUE
    ELSE FALSE

\* isPolynomialIn that asks for exponent > 0
isPolynomialIn_positive(H, id, q) ==
    IF HIsPolynomialIn(H, H[id].argument, q) /\ H[id].exponent > 0 THEN TRUE
    ELSE FALSE

isPolynomialIn(H, id, q) ==
    IF HIsPolynomialIn(H, H[id].argument, q) /\ H[id].exponent >= 0 THEN TRUE
    ELSE FALSE

isRationalIn(H, id, q) ==
    IF HIsRationalIn(H, H[id].argument, q) THEN TRUE ELSE FALSE

\* EPS, a small positive double
EPS == Norm(1, 1000000)
DCeil(a) == DInt(0 - ((0 - a[1]) \div a[2]))
DFabs(a) == <<Abs(a[1]), a[2]>>
DLess(a, b) == a[1] * b[2] < b[1] * a[2]

\* the parity test with EPS added instead of subtracted
IsEvenExponent_plus(n) ==
    LET half == Norm(n, 2)
        c == DCeil(DAdd(half, EPS))
    IN DLess(DFabs(DAdd(c, DMul(DInt(-1), half))), DMul(DInt(10), EPS))

\* fabs( ceil( ((double) exponent)/2.0 - EPS ) - ((double) exponent)/2.0 ) < 10.0*EPS
IsEvenExponent(n) ==
    LET half == Norm(n, 2)
        c == DCeil(DAdd(half, DMul(DInt(-1), EPS)))
    IN DLess(DFabs(DAdd(c, DMul(DInt(-1), half))), DMul(DInt(10), EPS))

\* getMonotonicity that lets every odd exponent inherit, negative ones too
getMonotonicity_odd(H, id) ==
    IF H[id].monotonicity # "MT_UNKNOWN" THEN H[id].monotonicity
    ELSE
      LET m == HGetMonotonicity(H, H[id].argument)
          n == H[id].exponent
      IN IF m = "MT_CONSTANT" THEN "MT_CONSTANT"
         ELSE IF IsEvenExponent(n)
              THEN (IF n = 0 THEN "MT_CONSTANT" ELSE "MT_NONMONOTONIC")
              ELSE m

getMonotonicity(H, id) ==
    IF H[id].monotonicity # "MT_UNKNOWN" THEN H[id].monotonicity
    ELSE
      LET m == HGetMonotonicity(H, H[id].argument)
          n == H[id].exponent
      IN IF m = "MT_CONSTANT" THEN "MT_CONSTANT"
         ELSE IF IsEvenExponent(n)
              THEN (IF n = 0 THEN "MT_CONSTANT" ELSE "MT_NONMONOTONIC")
              ELSE (IF n > 0 THEN m ELSE "MT_NONMONOTONIC")

\* getCurvature that derives the type anew whatever setCurvature stored
getCurvature_derive(H, id) ==
    LET cc == HGetCurvature(H, H[id].argument)
        n == H[id].exponent
    IN IF cc = "CT_CONSTANT" THEN "CT_CONSTANT"
       ELSE IF IsEvenExponent(n)
            THEN (IF n < 0 THEN "CT_NEITHER_CONVEX_NOR_CONCAVE"
                  ELSE IF n = 0 THEN "CT_CONSTANT"
                  ELSE IF cc = "CT_AFFINE" THEN "CT_CONVEX"
                  ELSE "CT_NEITHER_CONVEX_NOR_CONCAVE")
            ELSE (IF n = 1 THEN cc ELSE "CT_NEITHER_CONVEX_NOR_CONCAVE")

getCurvature(H, id) ==
    IF H[id].curvature # "CT_UNKNOWN" THEN H[id].curvature
    ELSE
      LET cc == HGetCurvature(H, H[id].argument)
          n == H[id].exponent
      IN IF cc = "CT_CONSTANT" THEN "CT_CONSTANT"
         ELSE IF IsEvenExponent(n)
              THEN (IF n < 0 THEN "CT_NEITHER_CONVEX_NOR_CONCAVE"
                    ELSE IF n = 0 THEN "CT_CONSTANT"
                    ELSE IF cc = "CT_AFFINE" THEN "CT_CONVEX"
                    ELSE "CT_NEITHER_CONVEX_NOR_CONCAVE")
              ELSE (IF n = 1 THEN cc ELSE "CT_NEITHER_CONVEX_NOR_CONCAVE")

setMonotonicity(o, monotonicity_) == [o EXCEPT !.monotonicity = monotonicity_]
setCurvature(o, curvature_) == [o EXCEPT !.curvature = curvature_]

\* a unary function of its argument is linear, polynomial or rational in
\* the queried variables only when it does not depend on them
U_isSmoothIn(H, id, q) == ~HIsDependingOn(H, H[id].argument, q)

\* Asin is increasing where it is defined
U_getMonotonicity(H, id) ==
    IF H[id].monotonicity # "MT_UNKNOWN" THEN H[id].monotonicity
    ELSE LET m == HGetMonotonicity(H, H[id].argument)
         IN IF m \in {"MT_CONSTANT", "MT_NONDECREASING", "MT_NONINCREASING"}
            THEN m ELSE "MT_NONMONOTONIC"

U_getCurvature(H, id) ==
    IF H[id].curvature # "CT_UNKNOWN" THEN H[id].curvature
    ELSE IF HGetCurvature(H, H[id].argument) = "CT_CONSTANT" THEN "CT_CONSTANT"
    ELSE "CT_NEITHER_CONVEX_NOR_CONCAVE"

HIsDependingOnVT(H, h, var) ==
    IF h.h = "obj" THEN
        (IF IsPowerInt(H, h) THEN isDependingOnVT(H, h.i, var)
         ELSE HIsDependingOnVT(H, H[h.i].argument, var))
    ELSE h.h = "var" /\ VarTypeOf(h.i) = var

HIsDependingOn(H, h, q) ==
    IF h.h = "obj" THEN
        (IF IsPowerInt(H, h) THEN isDependingOn(H, h.i, q)
         ELSE HIsDependingOn(H, H[h.i].argument, q))
    ELSE h.h = "var" /\ h.i \in q

HIsLinearIn(H, h, q) ==
    IF h.h = "obj" THEN
        (IF IsPowerInt(H, h) THEN isLinearIn(H, h.i, q) ELSE U_isSmoothIn(H, h.i, q))
    ELSE TRUE

HIsPolynomialIn(H, h, q) ==
    IF h.h = "obj" THEN
        (IF IsPowerInt(H, h) THEN isPolynomialIn(H, h.i, q)
         ELSE U_isSmoothIn(H, h.i, q))
    ELSE TRUE

HIsRationalIn(H, h, q) ==
    IF h.h = "obj" THEN
        (IF IsPowerInt(H, h) THEN isRationalIn(H, h.i, q)
         ELSE U_isSmoothIn(H, h.i, q))
    ELSE TRUE

HGetMonotonicity(H, h) ==
    IF h.h = "obj" THEN
        (IF IsPowerInt(H, h) THEN getMonotonicity(H, h.i)
         ELSE U_getMonotonicity(H, h.i))
    ELSE IF h.h = "var" THEN "MT_NONDECREASING" ELSE "MT_CONSTANT"

HGetCurvature(H, h) ==
    IF h.h = "obj" THEN
        (IF IsPowerInt(H, h) THEN getCurvature(H, h.i)
         ELSE U_getCurvature(H, h.i))
    ELSE IF h.h = "var" THEN "CT_AFFINE" ELSE "CT_CONSTANT"

(***************************************************************************)
(* substitute                                                              *)
(***************************************************************************)
RECURSIVE HSubstitute(_, _, _, _)

\* substitute that hands the argument on as it is
substitute_shared(H, id, index, sub) ==
    [SymRes(H) EXCEPT
        !.e = Power_Int(Shared(H[id].argument), H[id].exponent),
        !.argCalls = 1, !.news = 1]

substitute(H, id, index, sub) ==
    LET r == HSubstitute(H, H[id].argument, index, sub)
    IN [r EXCEPT !.e = Power_Int(r.e, H[id].exponent),
                 !.argCalls = 1, !.news = @ + 1]

Asin_substitute(H, id, index, sub) ==
    LET r == HSubstitute(H, H[id].argument, index, sub)
    IN [r EXCEPT !.e = Asin(r.e), !.argCalls = 1, !.news = @ + 1]

\* the variable index is replaced by sub; any other leaf stays itself
LeafSubstitute(h, index, sub) ==
    IF h.h = "var" /\ h.i = index THEN sub ELSE Shared(h)

HSubstitute(H, h, index, sub) ==
    IF h.h = "obj"
    THEN (IF IsPowerInt(H, h) THEN substitute(H, h.i, index, sub)
          ELSE Asin_substitute(H, h.i, index, sub))
    ELSE [SymRes(H) EXCEPT !.e = LeafSubstitute(h, index, sub)]

(***************************************************************************)
(* print: the stream output, as the sequence of the pieces written         *)
(***************************************************************************)
RECURSIVE HPrint(_, _)
RECURSIVE HIsVariable(_, _)

\* Power_Int::isVariable
isVariable(H, id) == FALSE

\* print that writes the self-product for every exponent 2
print_square(H, id) ==
    LET a == HPrint(H, H[id].argument)
        n == H[id].exponent
    IN IF n = 1 THEN <<"(">> \o a \o <<")">>
       ELSE IF n = 2 THEN <<"((">> \o a \o <<")*(">> \o a \o <<"))">>
       ELSE <<"(pow(">> \o a \o <<",", ToString(n), "))">>

print(H, id) ==
    LET a == HPrint(H, H[id].argument)
        n == H[id].exponent
    IN IF n = 1 THEN <<"(">> \o a \o <<")">>
       ELSE IF n = 2 /\ HIsVariable(H, H[id].argument)
            THEN <<"((">> \o a \o <<")*(">> \o a \o <<"))">>
       ELSE <<"(pow(">> \o a \o <<",", ToString(n), "))">>

\* a variable prints its name and component, a constant its value, and
\* Asin the function applied to its argument
LeafPrint(h) ==
    IF h.h = "var" THEN <<"xd[", ToString(h.i), "]">> ELSE <<ToString(h.i)>>

U_print(H, id) == <<"(asin(">> \o HPrint(H, H[id].argument) \o <<"))">>

HPrint(H, h) ==
    IF h.h = "obj"
    THEN (IF IsPowerInt(H, h) THEN print(H, h.i) ELSE U_print(H, h.i))
    ELSE LeafPrint(h)

\* only a variable leaf is a variable
HIsVariable(H, h) ==
    IF h.h = "obj"
    THEN (IF IsPowerInt(H, h) THEN isVariable(H, h.i) ELSE FALSE)
    ELSE h.h = "var"

(***************************************************************************)
(* Symbolic and classification calls                                       *)
(***************************************************************************)
DoIsDependingOnVT(id, var) ==
    /\ Live(id)
    /\ call' = [CallOf("isDependingOnVT", id, 0) EXCEPT
                   !.var = var, !.b = isDependingOnVT(heap, id, var)]
    /\ UNCHANGED <<heap, ub>>

DoIsDependingOn(id, q) ==
    /\ Live(id)
    /\ call' = [CallOf("isDependingOn", id, 0) EXCEPT
                   !.q = q, !.b = isDependingOn(heap, id, q)]
    /\ UNCHANGED <<heap, ub>>

DoIsLinearIn(id, q) ==
    /\ Live(id)
    /\ call' = [CallOf("isLinearIn", id, 0) EXCEPT
                   !.q = q, !.b = isLinearIn(heap, id, q)]
    /\ UNCHANGED <<heap, ub>>

DoIsPolynomialIn(id, q) ==
    /\ Live(id)
    /\ call' = [CallOf("isPolynomialIn", id, 0) EXCEPT
                   !.q = q, !.b = isPolynomialIn(heap, id, q)]
    /\ UNCHANGED <<heap, ub>>

DoIsRationalIn(id, q) ==
    /\ Live(id)
    /\ call' = [CallOf("isRationalIn", id, 0) EXCEPT
                   !.q = q, !.b = isRationalIn(heap, id, q)]
    /\ UNCHANGED <<heap, ub>>

DoGetMonotonicity(id) ==
    /\ Live(id)
    /\ call' = [CallOf("getMonotonicity", id, 0) EXCEPT
                   !.cls = getMonotonicity(heap, id)]
    /\ UNCHANGED <<heap, ub>>

DoGetCurvature(id) ==
    /\ Live(id)
    /\ call' = [CallOf("getCurvature", id, 0) EXCEPT
                   !.cls = getCurvature(heap, id)]
    /\ UNCHANGED <<heap, ub>>

DoSetMonotonicity(id, m) ==
    /\ Live(id)
    /\ heap' = [heap EXCEPT ![id] = setMonotonicity(@, m)]
    /\ call' = [CallOf("setMonotonicity", id, 0) EXCEPT !.cls = m]
    /\ ub' = ub

DoSetCurvature(id, c) ==
    /\ Live(id)
    /\ heap' = [heap EXCEPT ![id] = setCurvature(@, c)]
    /\ call' = [CallOf("setCurvature", id, 0) EXCEPT !.cls = c]
    /\ ub' = ub

\* the record of a symbolic call that handed back r
Symbolic(op, id, index, r) ==
    [CallOf(op, id, 0) EXCEPT
        !.index = index, !.ret = r.ret, !.e = r.e, !.argCalls = r.argCalls,
        !.news = r.news]

\* initDerivative on node id, a Power_Int or an Asin
DoInitDerivative(id) ==
    /\ ~ub
    /\ LET r == HInitDerivative(heap, ObjH(id))
       IN /\ heap' = r.heap
          /\ ub' = r.ub
          /\ call' = Symbolic("initDerivative", id, 0, r)

DoDifferentiate(id, index) ==
    /\ Live(id)
    /\ LET r == differentiate(heap, id, index)
       IN /\ heap' = r.heap
          /\ ub' = r.ub
          /\ call' = Symbolic("differentiate", id, index, r)

DoPrint(id) ==
    /\ Live(id)
    /\ call' = [CallOf("print", id, 0) EXCEPT !.out = print(heap, id)]
    /\ UNCHANGED <<heap, ub>>

\* substitute( index, sub ) on node id, a Power_Int or an Asin, with sub
\* the constant c
DoSubstitute(id, index, c) ==
    /\ ~ub
    /\ LET sub == DoubleConstant(DInt(c), LeafNeutral(c))
           r == HSubstitute(heap, ObjH(id), index, sub)
       IN /\ heap' = r.heap
          /\ ub' = r.ub
          /\ call' = [Symbolic("substitute", id, index, r) EXCEPT !.sub = sub]

\* the seed of the unit direction of the variable index
UnitSeed(index) ==
    [c \in Vars |-> IF c = index THEN DoubleConstant(DOne, NE_ONE)
                    ELSE DoubleConstant(DZero, NE_ZERO)]

DoAD_forwardSym(id, index) ==
    /\ Live(id)
    /\ LET r == AD_forwardSym(heap, id, UnitSeed(index))
       IN /\ heap' = r.heap
          /\ ub' = r.ub
          /\ call' = Symbolic("AD_forwardSym", id, index, r)

(***************************************************************************)
(* SpecSym: node 1 is Power_Int( a, n ) for every exponent n of ExpRange   *)
(* and a one of x[0], the constant 2, and node 2; node 2 is asin( x[0] )   *)
(* or Power_Int( x[0], -1 ).  Every call is made on node 1; node 2 can     *)
(* have its derivative cache initialized on its own.                       *)
(***************************************************************************)
\* the constants substituted for a variable
SubVals == {0, 2}
SetMonotonicities == {"MT_NONINCREASING", "MT_UNKNOWN"}
SetCurvatures == {"CT_CONCAVE", "CT_UNKNOWN"}

InitSym ==
    /\ \E n \in ExpRange :
       \E a \in {VarH(0), ConstH(2), ObjH(2)} :
       \E second \in {AsinCtor(VarH(0)), PowerIntCtor(VarH(0), -1)} :
          heap = [i \in Ids |-> IF i = 1 THEN PowerIntCtor(a, n) ELSE second]
    /\ call = NoCall
    /\ ub = FALSE

NextSym ==
    \/ \E var \in VariableTypes : DoIsDependingOnVT(1, var)
    \/ \E q \in Queries : DoIsDependingOn(1, q)
    \/ \E q \in Queries : DoIsLinearIn(1, q)
    \/ \E q \in Queries : DoIsPolynomialIn(1, q)
    \/ \E q \in Queries : DoIsRationalIn(1, q)
    \/ DoGetMonotonicity(1)
    \/ DoGetCurvature(1)
    \/ \E m \in SetMonotonicities : DoSetMonotonicity(1, m)
    \/ \E c \in SetCurvatures : DoSetCurvature(1, c)
    \/ \E id \in Ids : DoInitDerivative(id)
    \/ \E index \in Vars : DoDifferentiate(1, index)
    \/ \E index \in Vars : DoAD_forwardSym(1, index)
    \/ \E id \in Ids, index \in Vars, c \in SubVals : DoSubstitute(id, index, c)
    \/ DoPrint(1)

SpecSym == InitSym /\ [][NextSym]_vars

(***************************************************************************)
(* Copy construction and destruction                                       *)
(***************************************************************************)
\* the copy constructor with buffers calloc'ed as operator= does, the
\* contents not copied
CopyCtor_calloc(arg) ==
    [kind |-> "Power_Int",
     bufferSize |-> arg.bufferSize,
     exponent |-> arg.exponent,
     argument |-> arg.argument,
     dargument |-> arg.dargument,
     argument_result |-> [run1 \in 1..arg.bufferSize |-> DZero],
     dargument_result |-> [run1 \in 1..arg.bufferSize |-> DZero],
     curvature |-> arg.curvature,
     monotonicity |-> arg.monotonicity,
     derivative |-> arg.derivative,
     derivative2 |-> arg.derivative2]

\* Power_Int( const Power_Int &arg ): the scalars and the handles are
\* copied, the buffers are allocated anew and filled cell by cell
CopyCtor(arg) ==
    [kind |-> "Power_Int",
     bufferSize |-> arg.bufferSize,
     exponent |-> arg.exponent,
     argument |-> arg.argument,
     dargument |-> arg.dargument,
     argument_result |-> [run1 \in 1..arg.bufferSize |-> arg.argument_result[run1]],
     dargument_result |-> [run1 \in 1..arg.bufferSize |-> arg.dargument_result[run1]],
     curvature |-> arg.curvature,
     monotonicity |-> arg.monotonicity,
     derivative |-> arg.derivative,
     derivative2 |-> arg.derivative2]

\* storage that holds no node: before construction, after ~Power_Int
NoNode == [PowerIntCtor(NullH, 0) EXCEPT !.kind = "none"]

\* node a is constructed as a copy of node b
DoCopy(a, b) ==
    /\ Live(b)
    /\ ~ub /\ heap[a].kind = "none"
    /\ heap' = [heap EXCEPT ![a] = CopyCtor(heap[b])]
    /\ call' = [CallOf("copy", a, 0) EXCEPT
                   !.src = b,
                   !.populated = @ \cup {<<a, p[2]>> : p \in {q \in @ : q[1] = b}}]
    /\ ub' = ub

\* node id is destroyed; no other node has it as its argument
DoDestroy(id) ==
    /\ Live(id)
    /\ \A i \in Ids : heap[i].argument # ObjH(id)
    /\ heap' = [heap EXCEPT ![id] = NoNode]
    /\ call' = [CallOf("destroy", id, 0) EXCEPT !.populated = Depopulate(id)]
    /\ ub' = ub

(***************************************************************************)
(* SpecCopy: node 1 is Power_Int( x[0], 3 ); it is evaluated, cleared,     *)
(* classified by the setters and has its derivatives initialized.  Node 2  *)
(* is constructed as a copy of node 1, is evaluated and cleared itself,    *)
(* and is destroyed to be constructed again.                               *)
(***************************************************************************)
InitCopy ==
    /\ heap = [i \in Ids |-> IF i = 1 THEN PowerIntCtor(VarH(0), 3) ELSE NoNode]
    /\ call = NoCall
    /\ ub = FALSE

\* the points of Xs with x[0] other than 0, the value calloc leaves
CopyXs == {x \in Xs : x[0] # 0}

NextCopy ==
    \/ \E id \in Ids, k \in Slots, x \in CopyXs : DoEvaluate(id, k, x)
    \/ \E id \in Ids : DoClearBuffer(id)
    \/ DoInitDerivative(1)
    \/ DoSetCurvature(1, "CT_CONCAVE")
    \/ DoSetMonotonicity(1, "MT_NONINCREASING")
    \/ DoCopy(2, 1)
    \/ DoDestroy(2)

SpecCopy == InitCopy /\ [][NextCopy]_vars

(***************************************************************************)
(* SpecDag: three storages.  Node 3 is asin( x[0] ) or Power_Int( x[0], 2 ),*)
(* node 2 a Power_Int or an Asin over node 3.  Node 1 is constructed over  *)
(* node 2 or node 3, or as a copy of node 2, and is destroyed to be        *)
(* constructed again; initDerivative is called on every node.              *)
(***************************************************************************)
DagIds == {1, 2, 3}

\* node id is constructed as Power_Int( arg, n )
DoConstruct(id, arg, n) ==
    /\ ~ub /\ heap[id].kind = "none"
    /\ heap' = [heap EXCEPT ![id] = PowerIntCtor(arg, n)]
    /\ call' = CallOf("construct", id, 0)
    /\ ub' = ub

InitDag ==
    /\ \E third \in {AsinCtor(VarH(0)), PowerIntCtor(VarH(0), 2)} :
       \E second \in {PowerIntCtor(ObjH(3), 0), PowerIntCtor(ObjH(3), 3),
                      AsinCtor(ObjH(3))} :
          heap = [i \in DagIds |-> IF i = 1 THEN NoNode
                                   ELSE IF i = 2 THEN second ELSE third]
    /\ call = NoCall
    /\ ub = FALSE

NextDag ==
    \/ \E id \in DagIds : heap[id].kind # "none" /\ DoInitDerivative(id)
    \/ \E a \in {ObjH(2), ObjH(3)}, n \in {-1, 2} : DoConstruct(1, a, n)
    \/ DoCopy(1, 2)
    \/ DoDestroy(1)

SpecDag == InitDag /\ [][NextDag]_vars

(***************************************************************************)
(* SpecChain: three Power_Int nodes.  Node 3 is a power of x[0], node 2 a  *)
(* power of node 3, node 1 a power of node 2 (a chain) or of node 3 (a     *)
(* second parent of it).  Nodes 1 and 2 are evaluated at the slots 0 and 1; *)
(* node 1 is differentiated forward and has its buffers cleared.           *)
(***************************************************************************)
InitChain ==
    /\ \E n3 \in {-1, 2}, a1 \in {ObjH(2), ObjH(3)} :
          heap = [i \in DagIds |-> IF i = 1 THEN PowerIntCtor(a1, 2)
                                   ELSE IF i = 2 THEN PowerIntCtor(ObjH(3), 3)
                                   ELSE PowerIntCtor(VarH(0), n3)]
    /\ call = NoCall
    /\ ub = FALSE

NextChain ==
    \/ \E id \in {1, 2}, k \in SlotsNum, x \in CopyXs : DoEvaluate(id, k, x)
    \/ \E k \in SlotsNum, x \in CopyXs : DoAD_forward4(1, k, x, SeedOne)
    \/ DoClearBuffer(1)

SpecChain == InitChain /\ [][NextChain]_vars

(***************************************************************************)
(* SpecCache: node 1 is a power of x[0], node 2 is Power_Int( x[1], 2 );   *)
(* they have their derivatives initialized, are assigned to one another    *)
(* and node 1 is differentiated; storage 3 holds a copy of node 1.         *)
(***************************************************************************)
InitCache ==
    /\ \E n \in {-1, 3} :
          heap = [i \in DagIds |-> IF i = 1 THEN PowerIntCtor(VarH(0), n)
                                   ELSE IF i = 2 THEN PowerIntCtor(VarH(1), 2)
                                   ELSE NoNode]
    /\ call = NoCall
    /\ ub = FALSE

NextCache ==
    \/ \E id \in DagIds : heap[id].kind # "none" /\ DoInitDerivative(id)
    \/ \E a, b \in Ids : DoAssign(a, b)
    \/ \E index \in Vars : DoDifferentiate(1, index)
    \/ DoCopy(3, 1)
    \/ DoDestroy(3)

SpecCache == InitCache /\ [][NextCache]_vars

(***************************************************************************)
(* SpecBounds: node 1 is Power_Int( x[0], 3 ) or Power_Int( node 2, 3 )    *)
(* with node 2 = Power_Int( x[0], 2 ).  Node 1 is evaluated, differentiated *)
(* forward with the point and cleared at will; a call that reads the       *)
(* buffers at a slot is made only when that slot is populated.             *)
(***************************************************************************)
InitBounds ==
    /\ \E a \in {VarH(0), ObjH(2)} :
          heap = [i \in Ids |-> IF i = 1 THEN PowerIntCtor(a, 3)
                                ELSE PowerIntCtor(VarH(0), 2)]
    /\ call = [NoCall EXCEPT !.track = TRUE]
    /\ ub = FALSE

IsPopulated(id, number) == <<id, number>> \in call.populated

NextBounds ==
    \/ \E k \in Slots, x \in CopyXs : DoEvaluate(1, k, x)
    \/ \E k \in Slots, x \in CopyXs : DoAD_forward4(1, k, x, SeedOne)
    \/ DoClearBuffer(1)
    \/ \E k \in Slots : \E g \in GarbageAt(k) :
          IsPopulated(1, k) /\ DoAD_forward(1, k, SeedOne, g)
    \/ \E k \in Slots : \E g \in GarbageAt(k) :
          IsPopulated(1, k) /\ DoAD_backward(1, k, 1, g)
    \/ \E k \in Slots : \E g \in GarbageAt(k) :
          IsPopulated(1, k) /\ DoAD_forward2(1, k, SeedOne, SeedOne, g)
    \/ \E k \in Slots : \E g \in GarbageAt(k) :
          IsPopulated(1, k) /\ DoAD_backward2(1, k, 1, 0, g)

SpecBounds == InitBounds /\ [][NextBounds]_vars

(***************************************************************************)
(* The claims                                                              *)
(***************************************************************************)
\* a^n for a finite a, by numerator and denominator; 0^n for n < 0 is what
\* the C library makes of it, +Inf
RECURSIVE IntPow(_, _)
IntPow(b, k) == IF k = 0 THEN 1 ELSE b * IntPow(b, k - 1)
RatPower(a, n) ==
    IF n >= 0 THEN <<IntPow(a[1], n), IntPow(a[2], n)>>
    ELSE IF a[1] = 0 THEN PInf
    ELSE <<IntPow(Sgn(a[1]), -n) * IntPow(a[2], -n), IntPow(Abs(a[1]), -n)>>

\* C1: an evaluate call with slot >= bufferSize succeeds, leaves
\* bufferSize > slot, and leaves argument_result of every slot that existed
\* before the call (slot 0 among them) as it was.
C1_GrowthKeepsSlots ==
    [][(call'.op = "evaluate" /\ call'.slot >= heap[call'.id].bufferSize)
        => LET i == call'.id
           IN /\ call'.ret = OK
              /\ ~ub'
              /\ heap'[i].bufferSize > call'.slot
              /\ \A k \in 1..heap[i].bufferSize :
                    heap'[i].argument_result[k] = heap[i].argument_result[k]]_vars

\* C1 happens: an evaluate at slot 1 grew a one-cell buffer whose slot 0 held 2
C1_Witness ==
    /\ call.op = "evaluate" /\ call.slot = 1 /\ call.pbs = 1
    /\ heap[1].bufferSize = 2
    /\ heap[1].argument_result[1] = DInt(2)

\* C2: when the argument returns a failure code, evaluate and the numeric
\* AD_forward (both forms), AD_forward2 and AD_backward2 return that code.
C2_FailurePropagates ==
    (call.op \in {"evaluate", "AD_forward4", "AD_forward", "AD_forward2",
                  "AD_backward2"}
        /\ call.argRet # OK)
    => call.ret = call.argRet

\* C3 as stated: bufferSize of no node decreases in a step that is not a
\* clearBuffer.
C3_OnlyClearBufferShrinks ==
    [][call'.op # "clearBuffer"
        => \A i \in Ids : heap'[i].bufferSize >= heap[i].bufferSize]_vars

\* C3 amended: bufferSize of no node decreases in a step that is neither a
\* clearBuffer nor an assignment, and an assignment a = b sets a's bufferSize
\* to b's, which may be smaller.
C3_OnlyClearAndAssignShrink ==
    [][/\ call'.op \notin {"clearBuffer", "assign"}
          => \A i \in Ids : heap'[i].bufferSize >= heap[i].bufferSize
       /\ call'.op = "assign"
          => /\ heap'[call'.id].bufferSize = heap[call'.src].bufferSize
             /\ \A i \in Ids \ {call'.id} : heap'[i].bufferSize = heap[i].bufferSize]_vars

\* C3 happens: a numeric call other than evaluate ran on a grown buffer
C3_Witness ==
    /\ call.op = "AD_backward2" /\ call.id = 1
    /\ heap[1].bufferSize > 1

\* C4: clearBuffer leaves bufferSize = 1 and the slot-0 entries of both
\* buffers as they were, and a clearBuffer right after a clearBuffer on the
\* same node changes no field of any node.
C4_ClearBufferIdempotent ==
    [][call'.op = "clearBuffer"
        => LET i == call'.id
           IN /\ heap'[i].bufferSize = 1
              /\ Len(heap'[i].argument_result) = 1
              /\ heap'[i].argument_result[1] = heap[i].argument_result[1]
              /\ heap'[i].dargument_result[1] = heap[i].dargument_result[1]
              /\ \A j \in Ids \ {i} : heap'[j] = heap[j]
              /\ heap'[i] = [heap[i] EXCEPT !.bufferSize = 1,
                                            !.argument_result = <<heap[i].argument_result[1]>>,
                                            !.dargument_result = <<heap[i].dargument_result[1]>>]
              /\ (call'.again => heap' = heap)]_vars

\* C4 happens: a second clearBuffer in a row on node 1, whose slot 0 holds
\* what an earlier call stored there
C4_Witness ==
    /\ call.op = "clearBuffer" /\ call.again /\ call.id = 1
    /\ heap[1].argument_result = <<DInt(2)>>
    /\ heap[1].dargument_result = <<DOne>>

\* C5: evaluate stores the argument's value a in argument_result[slot] and
\* returns a^n; for n = 0 that is 1 for every finite a, 0 included, and for
\* n = 1 it is a.
C5_EvaluateIsPower ==
    (call.op = "evaluate")
    => LET o == heap[call.id]
       IN /\ ~ub
          /\ o.argument_result[call.slot + 1] = call.a
          /\ call.f = RatPower(call.a, o.exponent)
          /\ (o.exponent = 0 /\ IsFinite(call.a)) => call.f = DOne
          /\ (o.exponent = 1) => call.f = call.a

\* C5 happens: x^0 was evaluated at x = 0 and gave 1
C5_Witness ==
    /\ call.op = "evaluate" /\ heap[call.id].exponent = 0
    /\ call.a = DZero /\ call.f = DOne

\* every derivative cache from the handle h down is initialized
RECURSIVE Initialized(_, _)
Initialized(H, h) ==
    h.h = "obj" => (H[h.i].derivative # NullE /\ Initialized(H, H[h.i].argument))

IsZeroExpression(e) == e.t = "const" /\ e.v = DZero

\* C6: a call of isDependingOn on a Power_Int node with exponent 0 returns
\* false, in the overload taking a VariableType and in the one taking
\* dim/varType/component alike, whatever the argument depends on
C6_ExponentZeroIndependent ==
    (call.op \in {"isDependingOn", "isDependingOnVT"} /\ heap[call.id].exponent = 0)
        => call.b = FALSE

\* C7: on a Power_Int node with exponent 0 and no type set by a setter,
\* isLinearIn, isPolynomialIn and isRationalIn return true, getMonotonicity
\* returns MT_CONSTANT and getCurvature returns CT_CONSTANT, whatever the
\* argument is
C7_ExponentZeroIsConstant ==
    (call.op \in {"isLinearIn", "isPolynomialIn", "isRationalIn",
                  "getMonotonicity", "getCurvature"}
     /\ heap[call.id].exponent = 0)
        => /\ call.op \in {"isLinearIn", "isPolynomialIn", "isRationalIn"}
                => call.b = TRUE
           /\ (call.op = "getMonotonicity" /\ heap[call.id].monotonicity = "MT_UNKNOWN")
                => call.cls = "MT_CONSTANT"
           /\ (call.op = "getCurvature" /\ heap[call.id].curvature = "CT_UNKNOWN")
                => call.cls = "CT_CONSTANT"

\* C8: differentiate( index ) on a Power_Int node with exponent 0 returns
\* the constant 0 tagged NE_ZERO, for every index and argument; it makes no
\* call on the argument, leaves every field of every node as it was and
\* dereferences no derivative cache, initialized or not
C8_DifferentiateExponentZero ==
    [][(call'.op = "differentiate" /\ heap[call'.id].exponent = 0)
          => /\ call'.e = DoubleConstant(DZero, NE_ZERO)
             /\ call'.argCalls = 0
             /\ heap' = heap
             /\ ub' = FALSE]_vars

\* exponent 0, an argument that depends on the variable differentiated by,
\* and a derivative cache never initialized
C8_Witness ==
    /\ call.op = "differentiate"
    /\ heap[call.id].exponent = 0
    /\ heap[call.id].argument = VarH(call.index)
    /\ heap[call.id].derivative = NullE
    /\ call.e = DoubleConstant(DZero, NE_ZERO)

\* C9: on a Power_Int node whose derivative caches are initialized,
\* differentiate( i ) and the symbolic AD_forward seeded with the unit
\* direction of the variable i, called one after the other, hand back
\* expressions of the same value at every x; with exponent 0 both are the
\* zero expression
C9_SymbolicProtocolsAgree ==
    [][(/\ call.op = "differentiate"
        /\ call'.op = "AD_forwardSym"
        /\ call'.id = call.id
        /\ call'.index = call.index
        /\ Initialized(heap, ObjH(call.id))
        /\ ~ub')
          => /\ \A x \in Xs : Denote(heap, call.e, x) = Denote(heap', call'.e, x)
             /\ heap[call.id].exponent = 0
                  => IsZeroExpression(call.e) /\ IsZeroExpression(call'.e)]_vars

\* C10: the four-argument AD_forward returns f = a^n and df = n*a^(n-1)*da
\* for the value a and derivative da its argument returned (the product
\* taken in double arithmetic, where 0^(n-1) is +Inf for n <= 0), stores a
\* and da at the slot, and has grown the buffers by the slot number when
\* slot >= bufferSize.
C10_ForwardDerivative ==
    (call.op = "AD_forward4")
    => LET o == heap[call.id]
           n == o.exponent
       IN /\ ~ub /\ call.ret = OK
          /\ o.argument_result[call.slot + 1] = call.a
          /\ o.dargument_result[call.slot + 1] = call.da
          /\ call.f = RatPower(call.a, n)
          /\ call.df = DMul(DMul(DInt(n), RatPower(call.a, n - 1)), call.da)
          /\ o.bufferSize = IF call.slot >= call.pbs THEN call.pbs + call.slot
                            ELSE call.pbs

\* C10 happens: x^3 at x = 2 with seed 1, at slot 1 of a one-cell buffer,
\* gave f = 8 and df = 12
C10_Witness ==
    /\ call.op = "AD_forward4" /\ call.slot = 1 /\ call.pbs = 1
    /\ heap[call.id].exponent = 3
    /\ call.a = DInt(2) /\ call.da = DOne
    /\ call.f = DInt(8) /\ call.df = DInt(12)

\* the cell of slot k of node i holds a value that a call stored
Buffered(H, i, k) ==
    /\ InBuf(H[i], k)
    /\ H[i].argument_result[k + 1] # Garbage

\* C11: AD_backward at a slot k whose cell holds the argument value a hands
\* seed*n*a^(n-1) to the argument's AD_backward and returns the argument's
\* code; evaluate and the four-argument AD_forward at slot k store there the
\* value the argument returned, and at every other slot that existed they
\* leave the buffered value as it was.
C11_BackwardSeed ==
    /\ []((call.op = "AD_backward" /\ Buffered(heap, call.id, call.slot))
           => LET o == heap[call.id]
                  a == o.argument_result[call.slot + 1]
              IN /\ ~ub
                 /\ call.push = DMul(DMul(DInt(o.exponent),
                                          RatPower(a, o.exponent - 1)),
                                     call.seed)
                 /\ call.ret = call.argRet)
    /\ [][(call'.op \in {"evaluate", "AD_forward4"})
            => LET i == call'.id
               IN /\ heap'[i].argument_result[call'.slot + 1] = call'.a
                  /\ \A k \in 0..(heap[i].bufferSize - 1) :
                        k # call'.slot =>
                            heap'[i].argument_result[k + 1]
                                = heap[i].argument_result[k + 1]]_vars

\* C11 happens: x^3 was evaluated at slot 1 with x = 2 and at slot 0 with
\* another x; AD_backward at slot 1 with seed 2 pushed 2*3*2^2 = 24
C11_Witness ==
    /\ call.op = "AD_backward" /\ call.slot = 1 /\ call.seed = DInt(2)
    /\ heap[call.id].exponent = 3
    /\ Buffered(heap, call.id, 1)
    /\ heap[call.id].argument_result[2] = DInt(2)
    /\ heap[call.id].argument_result[1] = DInt(-2)
    /\ call.push = DInt(24)

\* both cells of slot k of node i hold values that a call stored
BufferedBoth(H, i, k) ==
    /\ Buffered(H, i, k)
    /\ H[i].dargument_result[k + 1] # Garbage

\* the sum over the variables c of u[c]*v[c]
Dot(u, v) ==
    DAdd(DMul(u[0], DInt(v[0])), DMul(u[1], DInt(v[1])))

\* C12: on a Power_Int over a variable leaf with the point a and the first
\* direction da buffered at slot k, AD_forward2( k, seed, dseed ) returns
\* df = n*a^(n-1)*da2 and ddf = n*a^(n-1)*dda + n*(n-1)*a^(n-2)*da*da2 for
\* the argument's da2 and dda; AD_backward2( k, seed1, seed2 ) hands
\* seed1*n*a^(n-1) and seed2*n*a^(n-1) + seed1*n*(n-1)*a^(n-2)*da to the
\* argument; and AD_backward2( k, 1, 0 ) called right after AD_forward2
\* yields gradients g, h with df = g.seed and ddf = g.dseed + h.seed.
C12_SecondOrderDuality ==
    /\ []((call.op = "AD_forward2" /\ BufferedBoth(heap, call.id, call.slot))
           => LET o == heap[call.id]
                  n == o.exponent
                  a == o.argument_result[call.slot + 1]
                  da == o.dargument_result[call.slot + 1]
                  da2 == LeafSeed(o.argument, call.seedv)
                  dda == LeafSeed(o.argument, call.dseedv)
                  nn == DMul(DInt(n), RatPower(a, n - 1))
              IN /\ ~ub
                 /\ call.df = DMul(nn, da2)
                 /\ call.ddf =
                        DAdd(DMul(nn, dda),
                             DMul(DMul(DMul(DInt(n * (n - 1)), RatPower(a, n - 2)),
                                       da), da2)))
    /\ []((call.op = "AD_backward2" /\ BufferedBoth(heap, call.id, call.slot))
           => LET o == heap[call.id]
                  n == o.exponent
                  a == o.argument_result[call.slot + 1]
                  da == o.dargument_result[call.slot + 1]
                  nn == DMul(DInt(n), RatPower(a, n - 1))
              IN /\ ~ub
                 /\ call.push = DMul(call.seed, nn)
                 /\ call.push2 =
                        DAdd(DMul(call.seed2, nn),
                             DMul(call.seed,
                                  DMul(DMul(DInt(n * (n - 1)), RatPower(a, n - 2)),
                                       da))))
    /\ [][(/\ call.op = "AD_forward2" /\ call'.op = "AD_backward2"
            /\ call'.id = call.id /\ call'.slot = call.slot
            /\ call'.seed = DOne /\ call'.seed2 = DZero
            /\ BufferedBoth(heap, call.id, call.slot))
              => /\ heap' = heap
                 /\ call.df = Dot(call'.dfv, call.seedv)
                 /\ call.ddf = DAdd(Dot(call'.dfv, call.dseedv),
                                    Dot(call'.ddfv, call.seedv))]_vars

\* C12 happens: x^3 with a = 2 and da = 1 buffered at slot 1;
\* AD_backward2( 1, 1, 0 ) gave the gradients 3*2^2 = 12 and 3*2*2*1 = 12
C12_Witness ==
    /\ call.op = "AD_backward2" /\ call.slot = 1
    /\ call.seed = DOne /\ call.seed2 = DZero
    /\ heap[call.id].exponent = 3
    /\ BufferedBoth(heap, call.id, 1)
    /\ heap[call.id].argument_result[2] = DInt(2)
    /\ heap[call.id].dargument_result[2] = DOne
    /\ call.dfv[0] = DInt(12) /\ call.ddfv[0] = DInt(12)

\* C13: a call of initDerivative on a Power_Int or Asin node that was
\* initialized before (by the call just before it, or at any earlier time)
\* returns success, leaves derivative and derivative2 of every node as they
\* were, allocates no node and makes no call on the argument.
C13_InitDerivativeIdempotent ==
    [][(/\ call'.op = "initDerivative"
        /\ (call'.again \/ heap[call'.id].derivative # NullE))
          => /\ call'.ret = OK
             /\ ~ub'
             /\ heap' = heap
             /\ heap'[call'.id].derivative # NullE
             /\ heap'[call'.id].derivative2 # NullE
             /\ call'.news = 0
             /\ call'.argCalls = 0]_vars

\* C13 happens: initDerivative ran twice in a row on a Power_Int over an
\* Asin node
C13_Witness ==
    /\ call.op = "initDerivative" /\ call.again /\ call.id = 1
    /\ heap[1].kind = "Power_Int" /\ heap[1].argument = ObjH(2)
    /\ heap[2].kind = "Asin"
    /\ heap[1].derivative # NullE /\ heap[2].derivative # NullE
    /\ call.news = 0

\* C14: substitute( i, c ) on a Power_Int or Asin node over variables and
\* constants, with c a constant, returns an expression whose value at every
\* x is the value of the node at x with x[i] = c; the Power_Int returned has
\* the exponent of the node; no field of any node changes.
C14_SubstituteRoundTrip ==
    [][(call'.op = "substitute")
          => LET h == ObjH(call'.id)
             IN /\ ~ub'
                /\ heap' = heap
                /\ IsPowerInt(heap, h)
                      => /\ call'.e.t = "powint"
                         /\ call'.e.n = heap[call'.id].exponent
                /\ \A x \in Xs :
                      Denote(heap', call'.e, x)
                        = HEvaluate(heap, h, 0,
                                    [x EXCEPT ![call'.index] = call'.sub.v[1]],
                                    NaN).f]_vars

\* C14 happens: x[0] was replaced by 2 in Power_Int( Power_Int( x[0], -1 ), 3 ),
\* and the result evaluates to 1/8 where x[0] = -2
C14_Witness ==
    /\ call.op = "substitute" /\ call.id = 1 /\ call.index = 0
    /\ call.sub = DoubleConstant(DInt(2), NE_NEITHER_ONE_NOR_ZERO)
    /\ heap[1].exponent = 3 /\ heap[1].argument = ObjH(2)
    /\ heap[2].kind = "Power_Int"
    /\ Denote(heap, call.e, [c \in Vars |-> IF c = 0 THEN -2 ELSE 0]) = <<1, 8>>
    /\ HEvaluate(heap, ObjH(1), 0, [c \in Vars |-> IF c = 0 THEN -2 ELSE 0], NaN).f
          = <<-1, 8>>

\* C15: two calls of getCurvature (getMonotonicity) in a row on a Power_Int
\* node return the same value; setCurvature( c ) (setMonotonicity( m ))
\* stores its value, no other call changes it, and while a value other
\* than UNKNOWN is stored getCurvature (getMonotonicity) returns it,
\* whatever the exponent and the argument are.
C15_SetterOverrides ==
    /\ []((call.op = "getCurvature" /\ heap[call.id].curvature # "CT_UNKNOWN")
           => call.cls = heap[call.id].curvature)
    /\ []((call.op = "getMonotonicity" /\ heap[call.id].monotonicity # "MT_UNKNOWN")
           => call.cls = heap[call.id].monotonicity)
    /\ [][/\ ((call'.op \in {"getCurvature", "getMonotonicity"} /\ call'.again)
                  => call'.cls = call.cls)
           /\ (call'.op = "setCurvature"
                  => heap'[call'.id].curvature = call'.cls)
           /\ (call'.op = "setMonotonicity"
                  => heap'[call'.id].monotonicity = call'.cls)
           /\ (call'.op # "setCurvature"
                  => \A i \in Ids : heap'[i].curvature = heap[i].curvature)
           /\ (call'.op # "setMonotonicity"
                  => \A i \in Ids : heap'[i].monotonicity = heap[i].monotonicity)
          ]_vars

\* C15 happens: CT_CONCAVE was set on x^2, which would derive CT_CONVEX, and
\* a getCurvature after other calls returned CT_CONCAVE
C15_Witness ==
    /\ call.op = "getCurvature" /\ ~call.again
    /\ heap[call.id].exponent = 2 /\ heap[call.id].argument = VarH(0)
    /\ heap[call.id].curvature = "CT_CONCAVE"
    /\ heap[call.id].derivative # NullE
    /\ call.cls = "CT_CONCAVE"

\* C16: with no monotonicity set, getMonotonicity on Power_Int( arg, n )
\* returns MT_CONSTANT when the argument is constant; else MT_CONSTANT for
\* n = 0, MT_NONMONOTONIC for every other even n, the argument's
\* monotonicity for odd n > 0 and MT_NONMONOTONIC for odd n < 0, with even
\* and odd the parity of the integer n.
C16_MonotonicityRule ==
    (call.op = "getMonotonicity" /\ heap[call.id].monotonicity = "MT_UNKNOWN")
    => LET n == heap[call.id].exponent
           m == HGetMonotonicity(heap, heap[call.id].argument)
       IN call.cls =
            IF m = "MT_CONSTANT" THEN "MT_CONSTANT"
            ELSE IF n = 0 THEN "MT_CONSTANT"
            ELSE IF n % 2 = 0 THEN "MT_NONMONOTONIC"
            ELSE IF n > 0 THEN m
            ELSE "MT_NONMONOTONIC"

\* C16 happens: x^(-1), odd and negative over an increasing argument, is
\* reported MT_NONMONOTONIC
C16_Witness ==
    /\ call.op = "getMonotonicity"
    /\ heap[call.id].monotonicity = "MT_UNKNOWN"
    /\ heap[call.id].exponent = -1
    /\ heap[call.id].argument = VarH(0)
    /\ call.cls = "MT_NONMONOTONIC"

\* C17: with no curvature set, getCurvature on Power_Int( arg, n ) returns
\* CT_CONSTANT when the argument is constant; else for even n neither for
\* n < 0, CT_CONSTANT for n = 0, CT_CONVEX over an affine argument and
\* neither over any other; for odd n the argument's curvature when n = 1
\* and neither for every other.
C17_CurvatureRule ==
    (call.op = "getCurvature" /\ heap[call.id].curvature = "CT_UNKNOWN")
    => LET n == heap[call.id].exponent
           cc == HGetCurvature(heap, heap[call.id].argument)
       IN call.cls =
            IF cc = "CT_CONSTANT" THEN "CT_CONSTANT"
            ELSE IF n % 2 = 0
                 THEN (IF n < 0 THEN "CT_NEITHER_CONVEX_NOR_CONCAVE"
                       ELSE IF n = 0 THEN "CT_CONSTANT"
                       ELSE IF cc = "CT_AFFINE" THEN "CT_CONVEX"
                       ELSE "CT_NEITHER_CONVEX_NOR_CONCAVE")
                 ELSE (IF n = 1 THEN cc ELSE "CT_NEITHER_CONVEX_NOR_CONCAVE")

\* C17 happens: x^2 over the affine x is reported CT_CONVEX
C17_Witness ==
    /\ call.op = "getCurvature"
    /\ heap[call.id].curvature = "CT_UNKNOWN"
    /\ heap[call.id].exponent = 2
    /\ heap[call.id].argument = VarH(0)
    /\ call.cls = "CT_CONVEX"

\* C18: isPolynomialIn on Power_Int( arg, n ) returns true if and only if
\* the argument's isPolynomialIn returns true and n >= 0; isLinearIn returns
\* true if and only if n = 0, or n = 1 and the argument's isLinearIn
\* returns true.
C18_PolynomialAndLinear ==
    /\ call.op = "isPolynomialIn"
          => (call.b <=> (/\ HIsPolynomialIn(heap, heap[call.id].argument, call.q)
                          /\ heap[call.id].exponent >= 0))
    /\ call.op = "isLinearIn"
          => (call.b <=> (\/ heap[call.id].exponent = 0
                          \/ /\ heap[call.id].exponent = 1
                             /\ HIsLinearIn(heap, heap[call.id].argument, call.q)))

\* C18 happens: x^(-1) is not polynomial in x, though x is
C18_Witness ==
    /\ call.op = "isPolynomialIn" /\ call.q = {0}
    /\ heap[call.id].exponent = -1
    /\ heap[call.id].argument = VarH(0)
    /\ HIsPolynomialIn(heap, VarH(0), call.q)
    /\ call.b = FALSE

\* the three forms of the output, for the printed argument a
PrintedPlain(a) == <<"(">> \o a \o <<")">>
PrintedSquare(a) == <<"((">> \o a \o <<")*(">> \o a \o <<"))">>
PrintedPow(a, n) == <<"(pow(">> \o a \o <<",", ToString(n), "))">>

\* C19: print on Power_Int( arg, n ) writes the parenthesised argument for
\* n = 1, the doubled-parenthesis product of the argument with itself for
\* n = 2 over an argument whose isVariable is true, and the pow form with
\* the argument and n in every other case, n = 2 over another Power_Int
\* included; it changes no field of any node.
C19_PrintForms ==
    /\ [](call.op = "print"
           => LET n == heap[call.id].exponent
                  arg == heap[call.id].argument
                  a == HPrint(heap, arg)
              IN call.out =
                    IF n = 1 THEN PrintedPlain(a)
                    ELSE IF n = 2 /\ HIsVariable(heap, arg) THEN PrintedSquare(a)
                    ELSE PrintedPow(a, n))
    /\ [][call'.op = "print" => (heap' = heap /\ ub' = ub)]_vars

\* C19 happens: Power_Int( Power_Int( x[0], -1 ), 2 ) is printed in the pow
\* form, not as a product
C19_Witness ==
    /\ call.op = "print"
    /\ heap[1].exponent = 2 /\ heap[1].argument = ObjH(2)
    /\ heap[2].kind = "Power_Int"
    /\ call.out = <<"(pow(", "(pow(", "xd[", "0", "]", ",", "-1", "))", ",", "2", "))">>

\* C20: a copy-constructed Power_Int has the exponent, bufferSize,
\* curvature, monotonicity and, slot by slot, the buffer contents of its
\* source, and the same argument, derivative, derivative2 and dargument
\* handles; the source is left as it was; and an evaluate or clearBuffer on
\* one of the two nodes leaves the other one, bufferSize and buffers
\* included, as it was.
C20_CopyConstructor ==
    [][/\ (call'.op = "copy"
              => LET new == heap'[call'.id]
                     arg == heap[call'.src]
                 IN /\ new.kind = "Power_Int"
                    /\ new.exponent = arg.exponent
                    /\ new.bufferSize = arg.bufferSize
                    /\ new.curvature = arg.curvature
                    /\ new.monotonicity = arg.monotonicity
                    /\ Len(new.argument_result) = arg.bufferSize
                    /\ Len(new.dargument_result) = arg.bufferSize
                    /\ \A k \in 1..arg.bufferSize :
                          /\ new.argument_result[k] = arg.argument_result[k]
                          /\ new.dargument_result[k] = arg.dargument_result[k]
                    /\ new.argument = arg.argument
                    /\ new.derivative = arg.derivative
                    /\ new.derivative2 = arg.derivative2
                    /\ new.dargument = arg.dargument
                    /\ heap'[call'.src] = arg)
       /\ (call'.op \in {"evaluate", "clearBuffer"}
              => \A i \in Ids : i # call'.id => heap'[i] = heap[i])
      ]_vars

\* C20 happens: node 2 was copied from a node with two cells, a set
\* curvature and initialized derivatives, and an evaluate on the copy then
\* wrote its slot 0 while the source kept its own
C20_Witness ==
    /\ call.op = "evaluate" /\ call.id = 2 /\ call.slot = 0
    /\ heap[2].kind = "Power_Int"
    /\ heap[1].bufferSize = 2 /\ heap[2].bufferSize = 2
    /\ heap[1].argument_result = <<DInt(2), DInt(-2)>>
    /\ heap[2].argument_result = <<DInt(-2), DInt(-2)>>
    /\ heap[2].curvature = "CT_CONCAVE" /\ heap[1].curvature = "CT_CONCAVE"
    /\ heap[2].derivative # NullE /\ heap[2].derivative = heap[1].derivative

\* C21: an assignment a = b between two Power_Int nodes leaves a with b's
\* exponent, argument, bufferSize, curvature and monotonicity and with b's
\* buffered argument and argument-derivative results at every slot below
\* bufferSize, so that AD_backward on a at a slot b holds a value for gives
\* the gradient it gives on b.
C21_AssignIsDeepCopy ==
    [][(call'.op = "assign" /\ call'.id # call'.src)
          => LET a == heap'[call'.id]
                 b == heap[call'.src]
             IN /\ a.exponent = b.exponent
                /\ a.argument = b.argument
                /\ a.bufferSize = b.bufferSize
                /\ a.curvature = b.curvature
                /\ a.monotonicity = b.monotonicity
                /\ \A k \in 1..b.bufferSize :
                      /\ a.argument_result[k] = b.argument_result[k]
                      /\ a.dargument_result[k] = b.dargument_result[k]
                /\ \A k \in 0..(b.bufferSize - 1) :
                      Buffered(heap, call'.src, k)
                        => AD_backward(heap', call'.id, k, DOne, ZeroVec, NaN).dfv
                             = AD_backward(heap', call'.src, k, DOne, ZeroVec, NaN).dfv]_vars

\* C22: the two-argument AD_forward at a slot k that holds a value returns
\* df = n*a^(n-1)*da for the a buffered at k and the da its argument
\* returned, stores da in dargument_result[k] and leaves bufferSize,
\* argument_result and every other cell of dargument_result as they were;
\* argument_result[k] is written by evaluate and the four-argument
\* AD_forward at slot k only; and an AD_forward2 or AD_backward2 at slot k
\* right after it takes that da as the first direction.
C22_ForwardUsesBufferedPrimal ==
    /\ [][/\ ((call'.op = "AD_forward" /\ Buffered(heap, call'.id, call'.slot))
                => LET i == call'.id
                       k == call'.slot
                       n == heap[i].exponent
                       a == heap[i].argument_result[k + 1]
                   IN /\ ~ub'
                      /\ call'.df = DMul(DMul(DInt(n), RatPower(a, n - 1)), call'.da)
                      /\ heap'[i].bufferSize = heap[i].bufferSize
                      /\ heap'[i].argument_result = heap[i].argument_result
                      /\ heap'[i].dargument_result
                            = [heap[i].dargument_result EXCEPT ![k + 1] = call'.da]
                      /\ \A j \in Ids \ {i} : heap'[j] = heap[j])
          /\ (call'.op \notin {"evaluate", "AD_forward4", "clearBuffer"}
                => \A i \in Ids : heap'[i].argument_result = heap[i].argument_result)
          /\ ((/\ call.op = "AD_forward" /\ call'.op = "AD_forward2"
               /\ call'.id = call.id /\ call'.slot = call.slot
               /\ Buffered(heap, call.id, call.slot))
                => LET o == heap[call.id]
                       n == o.exponent
                       a == o.argument_result[call.slot + 1]
                       da2 == LeafSeed(o.argument, call'.seedv)
                       dda == LeafSeed(o.argument, call'.dseedv)
                   IN call'.ddf =
                        DAdd(DMul(DMul(DInt(n), RatPower(a, n - 1)), dda),
                             DMul(DMul(DMul(DInt(n * (n - 1)), RatPower(a, n - 2)),
                                       call.da), da2)))
          /\ ((/\ call.op = "AD_forward" /\ call'.op = "AD_backward2"
               /\ call'.id = call.id /\ call'.slot = call.slot
               /\ Buffered(heap, call.id, call.slot))
                => LET o == heap[call.id]
                       n == o.exponent
                       a == o.argument_result[call.slot + 1]
                   IN call'.push2 =
                        DAdd(DMul(call'.seed2, DMul(DInt(n), RatPower(a, n - 1))),
                             DMul(call'.seed,
                                  DMul(DMul(DInt(n * (n - 1)), RatPower(a, n - 2)),
                                       call.da))))
         ]_vars

\* C22 happens: x^3 with a = 2 buffered at slot 1 and the direction 0 stored
\* there; AD_forward( 1, seed ) with seed 1 gave df = 12 and replaced the
\* direction, and slot 0 kept its own
C22_Witness ==
    /\ call.op = "AD_forward" /\ call.slot = 1
    /\ heap[call.id].exponent = 3
    /\ heap[call.id].argument_result = <<DInt(-2), DInt(2)>>
    /\ heap[call.id].dargument_result = <<DZero, DOne>>
    /\ call.da = DOne /\ call.df = DInt(12)

\* derivative and derivative2 are set on every node from the handle h down
RECURSIVE InitializedBoth(_, _)
InitializedBoth(H, h) ==
    h.h = "obj" => /\ H[h.i].derivative # NullE
                   /\ H[h.i].derivative2 # NullE
                   /\ InitializedBoth(H, H[h.i].argument)

C24_DifferentiateChainRule ==
    (/\ call.op = "differentiate"
     /\ heap[call.id].exponent # 0
     /\ Initialized(heap, ObjH(call.id)))
    => LET o == heap[call.id]
           n == o.exponent
           d == HDifferentiate(heap, o.argument, call.index).e
       IN /\ ~ub
          /\ call.e = myProd(o.derivative, d)
          /\ o.dargument = d
          /\ \A x \in Xs :
                LET a == HEvaluate(heap, o.argument, 0, x, NaN).f
                IN IsFinite(a)
                     => /\ Denote(heap, o.derivative, x)
                              = DMul(DInt(n), RatPower(a, n - 1))
                        /\ IsFinite(RatPower(a, n - 1))
                              => Denote(heap, call.e, x)
                                    = DMul(DMul(DInt(n), RatPower(a, n - 1)),
                                           Denote(heap, d, x))
          /\ n = 1 => \A x \in Xs :
                         /\ Denote(heap, o.derivative, x) = DOne
                         /\ Denote(heap, call.e, x) = Denote(heap, d, x)

\* C24 happens: Power_Int( Power_Int( x[0], -1 ), 1 ) was differentiated by
\* x[0]; the result is a product and has the value -1/4 where x[0] = 2
C24_Witness ==
    /\ call.op = "differentiate" /\ call.id = 1 /\ call.index = 0
    /\ heap[1].exponent = 1 /\ heap[1].argument = ObjH(2)
    /\ heap[2].kind = "Power_Int"
    /\ Initialized(heap, ObjH(1))
    /\ call.e.t = "prod"
    /\ Denote(heap, call.e, [c \in Vars |-> IF c = 0 THEN 2 ELSE 0]) = <<-1, 4>>

\* the value of the operator h at x, by the arithmetic of powers
RECURSIVE ValueAt(_, _, _)
ValueAt(H, h, x) ==
    IF h.h = "obj" THEN RatPower(ValueAt(H, H[h.i].argument, x), H[h.i].exponent)
    ELSE LeafValue(h, x)

\* C25: after an evaluate or four-argument AD_forward at slot k with the
\* point x on a chain or DAG of Power_Int nodes, every node reached from the
\* node called holds at slot k the value its argument has at x, the value
\* the argument returned in this call, and the call returns the power of
\* that value; the nodes not reached are as they were; and a node shared by
\* the parent called before and the parent called now, at the same slot
\* and x, holds the value again that it held.
C25_ChildrenBeforeParents ==
    [][(call'.op \in {"evaluate", "AD_forward4"})
          => LET i == call'.id
                 k == call'.slot
             IN /\ ~ub'
                /\ \A j \in Reached(heap, ObjH(i)) :
                      /\ InBuf(heap'[j], k)
                      /\ heap'[j].argument_result[k + 1]
                            = ValueAt(heap, heap[j].argument, call'.x)
                /\ call'.a = ValueAt(heap, heap[i].argument, call'.x)
                /\ call'.f = ValueAt(heap, ObjH(i), call'.x)
                /\ \A j \in DOMAIN heap :
                      j \notin Reached(heap, ObjH(i)) => heap'[j] = heap[j]
                /\ (/\ call.op \in {"evaluate", "AD_forward4"}
                    /\ call.slot = k /\ call.x = call'.x)
                      => \A j \in Reached(heap, ObjH(i)) \cap Reached(heap, ObjH(call.id)) :
                            heap'[j].argument_result[k + 1]
                                = heap[j].argument_result[k + 1]]_vars

\* C25 happens: node 3 = x[0]^2 is shared by node 2 = ( . )^3 and node 1 =
\* ( . )^2; node 2 was evaluated at slot 1 with x[0] = 2, then node 1 at the
\* same slot and point: node 3 holds 2 there, both parents hold 4, and the
\* call returned 16
C25_Witness ==
    /\ call.op = "evaluate" /\ call.id = 1 /\ call.slot = 1
    /\ call.x[0] = 2
    /\ heap[1].argument = ObjH(3) /\ heap[2].argument = ObjH(3)
    /\ heap[3].exponent = 2 /\ heap[2].exponent = 3
    /\ heap[3].bufferSize = 2 /\ heap[3].argument_result[2] = DInt(2)
    /\ heap[2].bufferSize = 2 /\ heap[2].argument_result[2] = DInt(4)
    /\ heap[1].bufferSize = 2 /\ heap[1].argument_result[2] = DInt(4)
    /\ call.f = DInt(16)

\* points at which x[0] and x[1] differ and no power has a pole
CachePoints == {[c \in Vars |-> IF c = 0 THEN 2 ELSE -2],
                [c \in Vars |-> IF c = 0 THEN -2 ELSE 2]}

\* C26: after every sequence of initDerivative, copy construction and
\* assignment, a Power_Int node whose derivative cache is set holds caches
\* of its present exponent n and argument: derivative has the value
\* n*a^(n-1) and derivative2 the value n*(n-1)*a^(n-2) where the argument
\* has the value a.
C26_CacheMatchesNode ==
    \A i \in DOMAIN heap :
        (heap[i].kind = "Power_Int" /\ heap[i].derivative # NullE)
        => LET n == heap[i].exponent
           IN \A x \in CachePoints :
                 LET a == ValueAt(heap, heap[i].argument, x)
                 IN /\ Denote(heap, heap[i].derivative, x)
                          = DMul(DInt(n), RatPower(a, n - 1))
                    /\ Denote(heap, heap[i].derivative2, x)
                          = DMul(DInt(n * (n - 1)), RatPower(a, n - 2))

\* C27: when every call that reads the buffers of a Power_Int node at a
\* slot k (the two-argument AD_forward, AD_backward, AD_forward2,
\* AD_backward2) comes after an evaluate or a four-argument AD_forward at
\* slot k with no clearBuffer in between, bufferSize is at least 1 and is
\* the length of both buffers at all times, every populated slot lies
\* below bufferSize, and no call reads or writes a cell outside
\* [0, bufferSize).
C27_AccessesInBounds ==
    /\ ~ub
    /\ \A i \in Ids :
          /\ heap[i].bufferSize >= 1
          /\ Len(heap[i].argument_result) = heap[i].bufferSize
          /\ Len(heap[i].dargument_result) = heap[i].bufferSize
    /\ \A p \in call.populated : InBuf(heap[p[1]], p[2])
    /\ call.op \in {"evaluate", "AD_forward4", "AD_forward", "AD_backward",
                    "AD_forward2", "AD_backward2"}
          => InBuf(heap[call.id], call.slot)

\* C27 happens: on a chain of two nodes slot 0 was populated, the buffers
\* of node 1 were cleared, slot 1 was populated, and AD_backward2 read it
C27_Witness ==
    /\ call.op = "AD_backward2" /\ call.id = 1 /\ call.slot = 1
    /\ heap[1].argument = ObjH(2)
    /\ call.populated = {<<1, 1>>, <<2, 0>>, <<2, 1>>}
    /\ heap[1].bufferSize = 2 /\ heap[2].bufferSize = 2
    /\ heap[1].dargument_result[1] = DInt(-4)

\* C28: on a Power_Int with exponent 0 whose slot holds a finite argument
\* value, 0 included, the four-argument and the two-argument AD_forward
\* return df = 0 and AD_backward hands 0 to the argument; on a Power_Int
\* with exponent 1 the term n*(n-1)*a^(n-2) adds nothing to ddf of
\* AD_forward2 nor to the second seed of AD_backward2, at a = 0 too.
C28_ZeroDerivativeAtZero ==
    (/\ call.op \in {"AD_forward4", "AD_forward", "AD_backward", "AD_forward2",
                     "AD_backward2"}
     /\ BufferedBoth(heap, call.id, call.slot)
     /\ IsFinite(heap[call.id].argument_result[call.slot + 1]))
    => LET o == heap[call.id]
           n == o.exponent
       IN /\ (n = 0 /\ call.op \in {"AD_forward4", "AD_forward"})
                => call.df = DZero
          /\ (n = 0 /\ call.op = "AD_backward")
                => call.push = DZero
          /\ (n = 1 /\ call.op = "AD_forward2")
                => call.ddf = LeafSeed(o.argument, call.dseedv)
          /\ (n = 1 /\ call.op = "AD_backward2")
                => call.push2 = call.seed2

====
